---- MODULE Spec2Model ----
(***************************************************************************)
(* LatNet Builder: the t-value engine over GF(2) (ProgressiveRowReducer,   *)
(* CompositionMaker, GaussMethod) and the random search driver.            *)
(*                                                                         *)
(* A row of a GF(2) matrix is the set of the column indices that hold a 1; *)
(* the sum of two rows is their symmetric difference.  Row and column      *)
(* indices count from 0, as in the source.                                 *)
(***************************************************************************)
EXTENDS Integers, Sequences, FiniteSets, TLC

(* ---- bounds of the explored inputs ---- *)
MaxRows == 3
MaxCols == 2
MaxOps == 5
MaxK == 7
NetRows == 3
NetCols == 3
MaxS == 2
MaxSub == 1
WideSize == 4
WideS == 3
MaxTries == 3
MaxGenValue == 2
MaxMerit == 2
MaxDimension == 2
RandModulus == 16

(* ---- GF(2) helpers (GeneratingMatrix) ---- *)
Xor(a, b) == (a \ b) \cup (b \ a)

MinOf(S) == CHOOSE x \in S : \A y \in S : x <= y

MaxOf(S) == CHOOSE x \in S : \A y \in S : y <= x

RECURSIVE XorAll(_, _)
\* sum over GF(2) of the rows f[i], i in S
XorAll(f, S) ==
    IF S = {} THEN {}
    ELSE LET i == CHOOSE x \in S : TRUE IN Xor(f[i], XorAll(f, S \ {i}))

RECURSIVE SumOver(_, _)
\* the sum of the numbers f[i], i in S
SumOver(f, S) ==
    IF S = {} THEN 0
    ELSE LET i == MinOf(S) IN f[i] + SumOver(f, S \ {i})

RowsOf(nCols) == SUBSET (0 .. nCols - 1)

\* a function with one more key
Put(f, k, v) == [x \in DOMAIN f \cup {k} |-> IF x = k THEN v ELSE f[x]]

\* a function with one key less
Drop(f, k) == [x \in DOMAIN f \ {k} |-> f[x]]

RECURSIVE SeqWithout(_, _)
SeqWithout(q, x) ==
    IF q = <<>> THEN <<>>
    ELSE IF Head(q) = x THEN SeqWithout(Tail(q), x)
    ELSE <<Head(q)>> \o SeqWithout(Tail(q), x)

SeqRange(q) == {q[i] : i \in 1 .. Len(q)}

(* ---- ProgressiveRowReducer ---- *)
\* ProgressiveRowReducer(nCols): no row, every column without a pivot
NewReducer(nCols) ==
    [ m_nRows |-> 0,
      m_nCols |-> nCols,
      m_smallestFullRank |-> 0,
      m_redMat |-> <<>>,
      m_rowOperations |-> <<>>,
      m_pivotsColRowPositions |-> <<>>,
      m_pivotsRowColPositions |-> <<>>,
      m_columnsWithoutPivot |-> 0 .. nCols - 1,
      m_rowsWithoutPivot |-> <<>>,
      m_baseMatrix |-> <<>> ]

\* row `dst` of the reduced matrix and of the row operations += row `src`
RowXor(R, dst, src) ==
    [R EXCEPT !.m_redMat[dst] = Xor(@, R.m_redMat[src]),
              !.m_rowOperations[dst] = Xor(@, R.m_rowOperations[src])]

RECURSIVE PivotRow(_, _, _)
\* uses the existing pivots, in increasing column order, to pivot row `row`
PivotRow(R, row, cols) ==
    IF cols = {} THEN R
    ELSE LET c == MinOf(cols)
             R1 == IF c \in R.m_redMat[row]
                   THEN RowXor(R, row, R.m_pivotsColRowPositions[c])
                   ELSE R
         IN PivotRow(R1, row, cols \ {c})

RECURSIVE EliminateColumn(_, _, _, _)
\* uses the pivot (row, col) to pivot the other rows
EliminateColumn(R, row, col, rows) ==
    IF rows = {} THEN R
    ELSE LET i == MinOf(rows)
             R1 == IF i # row /\ col \in R.m_redMat[i] THEN RowXor(R, i, row) ELSE R
         IN EliminateColumn(R1, row, col, rows \ {i})

\* records the pivot (row, col) and eliminates col from the other rows
SetPivot(R, row, col) ==
    LET R1 == [R EXCEPT !.m_columnsWithoutPivot = @ \ {col},
                        !.m_pivotsColRowPositions = Put(@, col, row),
                        !.m_pivotsRowColPositions = Put(@, row, col)]
    IN EliminateColumn(R1, row, col, 0 .. R.m_nRows - 1)

\* pivotRowAndFindNewPivot(rowIndex): the reducer afterwards
pivotRowAndFindNewPivot(R, rowIndex) ==
    LET R1 == PivotRow(R, rowIndex, DOMAIN R.m_pivotsColRowPositions)
        free == R1.m_redMat[rowIndex] \cap R1.m_columnsWithoutPivot
    IN IF free # {}
       THEN SetPivot(R1, rowIndex, MinOf(free))
       ELSE [R1 EXCEPT !.m_rowsWithoutPivot = Append(@, rowIndex)]

\* the least number of leading columns that holds one pivot per row,
\* nCols + 1 when some row has no pivot
UpdateSmallestFullRank(R) ==
    [R EXCEPT !.m_smallestFullRank =
        IF Cardinality(DOMAIN R.m_pivotsColRowPositions) < R.m_nRows
        THEN R.m_nCols + 1
        ELSE IF R.m_nRows = 0 THEN 0
        ELSE MaxOf(DOMAIN R.m_pivotsColRowPositions) + 1]

\* addRow(newRow): stacks newRow below and updates the reduction
addRow(R, newRow) ==
    LET n == R.m_nRows
        R1 == [R EXCEPT !.m_nRows = n + 1,
                        !.m_redMat = Put(@, n, newRow),
                        !.m_rowOperations = Put(@, n, {n}),
                        !.m_baseMatrix = Put(@, n, newRow)]
    IN UpdateSmallestFullRank(pivotRowAndFindNewPivot(R1, n))

\* the bit of row j in a new column newCol (the set of the input rows
\* that hold a 1 in it): row j of the row operations times newCol
ColumnBit(R, j, newCol) == Cardinality(R.m_rowOperations[j] \cap newCol) % 2 = 1

RECURSIVE FirstWith(_, _, _)
\* the first row of the list q that holds a 1 in column c; -1 if none
FirstWith(R, q, c) ==
    IF q = <<>> THEN -1
    ELSE IF c \in R.m_redMat[Head(q)] THEN Head(q)
    ELSE FirstWith(R, Tail(q), c)

\* promotes the first row without a pivot that holds a 1 in the
\* pivot-free column c, if there is one
Promote(R, c) ==
    LET r == FirstWith(R, R.m_rowsWithoutPivot, c)
    IN IF r = -1 \/ c \notin R.m_columnsWithoutPivot THEN R
       ELSE SetPivot([R EXCEPT !.m_rowsWithoutPivot = SeqWithout(@, r)], r, c)

\* addColumn(newCol): stacks newCol on the right and updates the reduction
addColumn(R, newCol) ==
    LET c == R.m_nCols
        rows == 0 .. R.m_nRows - 1
        R1 == [R EXCEPT
                 !.m_nCols = c + 1,
                 !.m_redMat = [j \in rows |->
                     IF ColumnBit(R, j, newCol) THEN @[j] \cup {c} ELSE @[j]],
                 !.m_baseMatrix = [i \in rows |->
                     IF i \in newCol THEN @[i] \cup {c} ELSE @[i]],
                 !.m_columnsWithoutPivot = @ \cup {c}]
    IN UpdateSmallestFullRank(Promote(R1, c))

\* replaceRow(rowIndex, newRow) mutated: the pivot of the replaced row is
\* kept on record
replaceRow_keepsPivot(R, rowIndex, newRow) ==
    LET R2 == [R EXCEPT !.m_redMat[rowIndex] = newRow,
                        !.m_rowOperations[rowIndex] = {rowIndex},
                        !.m_baseMatrix[rowIndex] = newRow]
    IN UpdateSmallestFullRank(R2)

\* replaceRow(rowIndex, newRow): releases the pivot of the row, puts
\* newRow in its place, reduces it and looks for a new pivot, then
\* promotes a row without pivot into the released column
replaceRow(R, rowIndex, newRow) ==
    LET held == rowIndex \in DOMAIN R.m_pivotsRowColPositions
        cStar == IF held THEN R.m_pivotsRowColPositions[rowIndex] ELSE -1
        R1 == IF held
              THEN [R EXCEPT !.m_pivotsRowColPositions = Drop(@, rowIndex),
                             !.m_pivotsColRowPositions = Drop(@, cStar),
                             !.m_columnsWithoutPivot = @ \cup {cStar}]
              ELSE [R EXCEPT !.m_rowsWithoutPivot = SeqWithout(@, rowIndex)]
        R2 == [R1 EXCEPT !.m_redMat[rowIndex] = newRow,
                         !.m_rowOperations[rowIndex] = {rowIndex},
                         !.m_baseMatrix[rowIndex] = newRow]
        R3 == pivotRowAndFindNewPivot(R2, rowIndex)
        R4 == IF held THEN Promote(R3, cStar) ELSE R3
    IN UpdateSmallestFullRank(R4)

\* computeRank(): the number of pivots
computeRank(R) == Cardinality(DOMAIN R.m_pivotsRowColPositions)

\* the reducer a fresh ProgressiveRowReducer(nCols) becomes when the rows
\* rows[0], rows[1], ... are added one by one
RECURSIVE AddRows(_, _, _)
AddRows(R, rows, i) ==
    IF i \notin DOMAIN rows THEN R ELSE AddRows(addRow(R, rows[i]), rows, i + 1)

FreshReducer(nCols, rows) == AddRows(NewReducer(nCols), rows, 0)

(* ---- CompositionMaker ---- *)
Reverse(q) == [i \in 1 .. Len(q) |-> q[Len(q) + 1 - i]]

RECURSIVE Flatten(_)
Flatten(qq) == IF qq = <<>> THEN <<>> ELSE Head(qq) \o Flatten(Tail(qq))

RECURSIVE UnitMoveOrder_sameDirection(_, _)
\* the order mutated: the order of the rest never alternates
UnitMoveOrder_sameDirection(n, s) ==
    IF s = 1 THEN << <<n>> >>
    ELSE Flatten([b \in 1 .. n + 1 |->
            LET j == n + 1 - b
                rest == UnitMoveOrder_sameDirection(n - j, s - 1)
            IN [i \in 1 .. Len(rest) |-> <<j>> \o rest[i]]])

RECURSIVE UnitMoveOrder(_, _)
\* the ways to share n units among s parts (a part may be empty), from
\* <<n, 0, .., 0>> to <<0, .., 0, n>>, each got from the one before by
\* moving one unit from a part to another: the first part goes down from
\* n to 0 and the order of the rest alternates
UnitMoveOrder(n, s) ==
    IF s = 1 THEN << <<n>> >>
    ELSE Flatten([b \in 1 .. n + 1 |->
            LET j == n + 1 - b
                rest == UnitMoveOrder(n - j, s - 1)
                dir == IF j % 2 = 0 THEN rest ELSE Reverse(rest)
            IN [i \in 1 .. Len(dir) |-> <<j>> \o dir[i]]])

\* the compositions of k into s positive parts in the order CompositionMaker
\* visits them; the first one is <<k-s+1, 1, .., 1>>
CompositionOrder(k, s) ==
    LET w == UnitMoveOrder(k - s, s)
    IN [i \in 1 .. Len(w) |-> [p \in 1 .. s |-> w[i][p] + 1]]

\* CompositionMaker(k, s): at the first composition
CompositionMaker(k, s) == [m_k |-> k, m_s |-> s, m_pos |-> 1]

\* the composition the maker is at
m_composition(cm) == CompositionOrder(cm.m_k, cm.m_s)[cm.m_pos]

\* goToNextComposition(): what it returns
goToNextComposition_returns(cm) ==
    cm.m_pos < Len(CompositionOrder(cm.m_k, cm.m_s))

\* goToNextComposition(): the maker afterwards
goToNextComposition(cm) ==
    IF goToNextComposition_returns(cm) THEN [cm EXCEPT !.m_pos = @ + 1] ELSE cm

\* changeFromPreviousComposition(): <<from, to>>, the unit (part, rank in
\* the part) that left the previous composition and the one that came
changeFromPreviousComposition(cm) ==
    LET order == CompositionOrder(cm.m_k, cm.m_s)
        prev == order[cm.m_pos - 1]
        cur == order[cm.m_pos]
        from == CHOOSE p \in 1 .. cm.m_s : cur[p] < prev[p]
        to == CHOOSE p \in 1 .. cm.m_s : cur[p] > prev[p]
    IN << <<from, prev[from]>>, <<to, cur[to]>> >>

(* ---- linear algebra over GF(2) ---- *)
\* the rows, each cut to its first c columns
Leading(rows, c) == [i \in DOMAIN rows |-> rows[i] \cap (0 .. c - 1)]

\* no non-empty set of the rows sums to zero
LinearlyIndependent(rows) ==
    \A T \in SUBSET (DOMAIN rows) : T # {} => XorAll(rows, T) # {}

\* the least number of leading columns on which the rows are of full
\* rank; nCols + 1 if there is none
MinColsFullRank(rows, nCols) ==
    LET ok == {c \in 0 .. nCols : LinearlyIndependent(Leading(rows, c))}
    IN IF ok = {} THEN nCols + 1 ELSE MinOf(ok)

\* the rank of the rows
Rank(rows) ==
    MaxOf({Cardinality(T) : T \in
        {U \in SUBSET (DOMAIN rows) :
            \A V \in SUBSET U : V # {} => XorAll(rows, V) # {}}})

(* ---- the reducer as GaussMethod.cc uses it ---- *)
\* ProgressiveRowReducer(nCols) seen through addRow, replaceRow and
\* smallestFullRank as ProgressiveRowReducer.h documents them: the rows
\* it holds, and the least number of columns on which they are of full
\* rank
RowSystem(nCols) == [m_nCols |-> nCols, m_nRows |-> 0, m_rows |-> <<>>]

RowSystem_addRow(R, newRow) ==
    [R EXCEPT !.m_nRows = @ + 1, !.m_rows = Put(@, R.m_nRows, newRow)]

RowSystem_replaceRow(R, rowIndex, newRow) ==
    [R EXCEPT !.m_rows = Put(@, rowIndex, newRow)]

smallestFullRank(R) == MinColsFullRank(R.m_rows, R.m_nCols)

(* ---- GaussMethod ---- *)
\* std::map::operator[]: a missing key reads as 0
MapGet(m, key) == IF key \in DOMAIN m THEN m[key] ELSE 0

Max2(a, b) == IF a >= b THEN a ELSE b

\* iteration_on_k, lines 35-46: the row map after seeding
SeedOrigin(k, s) ==
    [key \in {<<1, u>> : u \in 1 .. k - s + 1} \cup {<<q, 1>> : q \in 2 .. s} |->
        IF key[1] = 1 THEN key[2] - 1 ELSE k - s + key[1] - 1]

RECURSIVE SeedRows(_, _, _, _, _)
\* iteration_on_k, lines 39-46: the reducer after the addRow calls r, r+1, ..
SeedRows(R, baseMatrices, k, s, r) ==
    IF r >= k THEN R
    ELSE LET newRow == IF r <= k - s THEN baseMatrices[s - 1][r]
                       ELSE baseMatrices[s - 1 - (r - (k - s))][0]
         IN SeedRows(RowSystem_addRow(R, newRow), baseMatrices, k, s, r + 1)

\* iteration_on_k mutated: the seed composition is not tested for full
\* rank
iteration_on_k_start_noSeedTest(baseMatrices, nCols, s, k) ==
    LET R == SeedRows(RowSystem(nCols), baseMatrices, k, s, 0)
    IN [ Origin_to_M |-> SeedOrigin(k, s),
         rowReducer |-> R,
         smallestFullRankIndex |-> smallestFullRank(R) - 1,
         compositionMaker |-> CompositionMaker(k, s),
         m_returned |-> FALSE ]

\* iteration_on_k, lines 27-54: up to the while loop.  m_returned says
\* that the function has returned m_smallestFullRankIndex
iteration_on_k_start(baseMatrices, nCols, s, k) ==
    LET R == SeedRows(RowSystem(nCols), baseMatrices, k, s, 0)
        idx == smallestFullRank(R) - 1
    IN [ Origin_to_M |-> SeedOrigin(k, s),
         rowReducer |-> R,
         smallestFullRankIndex |-> idx,
         compositionMaker |-> CompositionMaker(k, s),
         m_returned |-> (idx = nCols) ]

\* lines 60-62 mutated: the key that left the composition is not erased
iteration_on_k_step_noErase(it, baseMatrices, nCols, s) ==
    IF ~goToNextComposition_returns(it.compositionMaker)
    THEN [it EXCEPT !.m_returned = TRUE]
    ELSE LET cm == goToNextComposition(it.compositionMaker)
             rowChange1 == changeFromPreviousComposition(cm)
             ind_exchange == MapGet(it.Origin_to_M, rowChange1[1])
             map == Put(it.Origin_to_M, rowChange1[2], ind_exchange)
             newRow == baseMatrices[s - rowChange1[2][1]][rowChange1[2][2] - 1]
             R == RowSystem_replaceRow(it.rowReducer, ind_exchange, newRow)
             idx == smallestFullRank(R) - 1
         IN [ Origin_to_M |-> map,
              rowReducer |-> R,
              smallestFullRankIndex |-> idx,
              compositionMaker |-> cm,
              m_returned |-> (idx = nCols) ]

\* iteration_on_k, lines 56-74: one test of the while condition and, if
\* it holds, one turn of the loop
iteration_on_k_step(it, baseMatrices, nCols, s) ==
    IF ~goToNextComposition_returns(it.compositionMaker)
    THEN [it EXCEPT !.m_returned = TRUE]
    ELSE LET cm == goToNextComposition(it.compositionMaker)
             rowChange1 == changeFromPreviousComposition(cm)
             ind_exchange == MapGet(it.Origin_to_M, rowChange1[1])
             map == Drop(Put(it.Origin_to_M, rowChange1[2], ind_exchange), rowChange1[1])
             newRow == baseMatrices[s - rowChange1[2][1]][rowChange1[2][2] - 1]
             R == RowSystem_replaceRow(it.rowReducer, ind_exchange, newRow)
             idx == smallestFullRank(R) - 1
         IN [ Origin_to_M |-> map,
              rowReducer |-> R,
              smallestFullRankIndex |-> idx,
              compositionMaker |-> cm,
              m_returned |-> (idx = nCols) ]

\* computeTValue (multilevel), lines 96-103: the pivots of the one matrix
OneMatrixPivots(matrix, nCols) ==
    FreshReducer(nCols, matrix).m_pivotsRowColPositions

\* line 105: countPivot has nCols entries; a pivot (r, c) with
\* max(r, c) >= nCols is counted outside of it
CountPivotOutOfRange(matrix, nCols) ==
    LET pivotPos == OneMatrixPivots(matrix, nCols)
    IN \E r \in DOMAIN pivotPos : Max2(r, pivotPos[r]) >= nCols

\* lines 104-116 mutated: the pivots are not accumulated over the levels
OneMatrixTValues_notCumulative(matrix, nCols, mMin) ==
    LET pivotPos == OneMatrixPivots(matrix, nCols)
        countPivot == [c \in 0 .. nCols - 1 |->
            Cardinality({r \in DOMAIN pivotPos : Max2(r, pivotPos[r]) = c})]
    IN [j \in 1 .. nCols - mMin |-> (j - 1 + mMin) + 1 - countPivot[j - 1 + mMin]]

\* lines 104-116 mutated: a pivot (r, c) is counted at level min(r, c)
OneMatrixTValues_minLevel(matrix, nCols, mMin) ==
    LET pivotPos == OneMatrixPivots(matrix, nCols)
        countPivot == [c \in 0 .. nCols - 1 |->
            Cardinality({r \in DOMAIN pivotPos :
                (IF r <= pivotPos[r] THEN r ELSE pivotPos[r]) = c})]
    IN [j \in 1 .. nCols - mMin |->
          (j - 1 + mMin) + 1 - SumOver(countPivot, 0 .. j - 1 + mMin)]

\* computeTValue (multilevel), lines 104-116: the result for one matrix
OneMatrixTValues(matrix, nCols, mMin) ==
    LET pivotPos == OneMatrixPivots(matrix, nCols)
        countPivot == [c \in 0 .. nCols - 1 |->
            Cardinality({r \in DOMAIN pivotPos : Max2(r, pivotPos[r]) = c})]
    IN [j \in 1 .. nCols - mMin |->
          (j - 1 + mMin) + 1 - SumOver(countPivot, 0 .. j - 1 + mMin)]

\* computeTValue (multilevel), lines 119-134: the locals before the k loop
\* (m_returned: the early return of line 126)
TValueFrame(nRows, nCols, s, mMin0, maxSubProj) ==
    LET nLevel0 == Len(maxSubProj)
        small == mMin0 < s - 1
        diff == IF small THEN s - 1 - mMin0 ELSE 0
        early == small /\ nLevel0 <= s - 1 - mMin0
        nLevel == nLevel0 - diff
        mMin == IF small THEN s - 1 ELSE mMin0
    IN [ mMin |-> mMin,
         nLevel |-> nLevel,
         diff |-> diff,
         result |-> IF early THEN maxSubProj
                    ELSE [j \in 1 .. nLevel0 |->
                            IF j - 1 >= diff
                            THEN Max2(nCols - (nLevel - 1 - (j - 1 - diff)) - s + 1,
                                      maxSubProj[j])
                            ELSE maxSubProj[j]],
         previousIndSmallestInvertible |-> nLevel,
         k |-> nRows - maxSubProj[nLevel0],
         m_returned |-> early ]

\* lines 139-149 mutated: the bound maxSubProj is not applied
TValueAfterK_noLowerBound(f, nCols, maxSubProj, smallestFullRankIndex) ==
    IF smallestFullRankIndex = nCols
    THEN [f EXCEPT !.k = @ - 1]
    ELSE LET first == IF smallestFullRankIndex > f.mMin
                      THEN smallestFullRankIndex - f.mMin ELSE 0
             result == [j \in DOMAIN f.result |->
                 LET i == j - 1 - f.diff
                 IN IF i >= first /\ i < f.previousIndSmallestInvertible
                    THEN nCols - (f.nLevel - 1 - i) - f.k
                    ELSE f.result[j]]
         IN IF smallestFullRankIndex <= f.mMin
            THEN [f EXCEPT !.result = result, !.m_returned = TRUE]
            ELSE [f EXCEPT !.result = result,
                           !.previousIndSmallestInvertible =
                               smallestFullRankIndex - f.mMin,
                           !.k = @ - 1]

\* lines 145-147 mutated: the loop goes on when smallestFullRankIndex is
\* mMin
TValueAfterK_lateBreak(f, nCols, maxSubProj, smallestFullRankIndex) ==
    IF smallestFullRankIndex = nCols
    THEN [f EXCEPT !.k = @ - 1]
    ELSE LET first == IF smallestFullRankIndex > f.mMin
                      THEN smallestFullRankIndex - f.mMin ELSE 0
             result == [j \in DOMAIN f.result |->
                 LET i == j - 1 - f.diff
                 IN IF i >= first /\ i < f.previousIndSmallestInvertible
                    THEN Max2(nCols - (f.nLevel - 1 - i) - f.k, maxSubProj[j])
                    ELSE f.result[j]]
         IN IF smallestFullRankIndex < f.mMin
            THEN [f EXCEPT !.result = result, !.m_returned = TRUE]
            ELSE [f EXCEPT !.result = result,
                           !.previousIndSmallestInvertible =
                               smallestFullRankIndex - f.mMin,
                           !.k = @ - 1]

\* line 140 mutated: `continue` without the k-- of the loop header
TValueAfterK_noDecrement(f, nCols, maxSubProj, smallestFullRankIndex) ==
    IF smallestFullRankIndex = nCols
    THEN f
    ELSE LET first == IF smallestFullRankIndex > f.mMin
                      THEN smallestFullRankIndex - f.mMin ELSE 0
             result == [j \in DOMAIN f.result |->
                 LET i == j - 1 - f.diff
                 IN IF i >= first /\ i < f.previousIndSmallestInvertible
                    THEN Max2(nCols - (f.nLevel - 1 - i) - f.k, maxSubProj[j])
                    ELSE f.result[j]]
         IN IF smallestFullRankIndex <= f.mMin
            THEN [f EXCEPT !.result = result, !.m_returned = TRUE]
            ELSE [f EXCEPT !.result = result,
                           !.previousIndSmallestInvertible =
                               smallestFullRankIndex - f.mMin,
                           !.k = @ - 1]

\* computeTValue (multilevel), lines 139-149: the locals after
\* iteration_on_k has returned smallestFullRankIndex (m_returned: break)
TValueAfterK(f, nCols, maxSubProj, smallestFullRankIndex) ==
    IF smallestFullRankIndex = nCols
    THEN [f EXCEPT !.k = @ - 1]
    ELSE LET first == IF smallestFullRankIndex > f.mMin
                      THEN smallestFullRankIndex - f.mMin ELSE 0
             result == [j \in DOMAIN f.result |->
                 LET i == j - 1 - f.diff
                 IN IF i >= first /\ i < f.previousIndSmallestInvertible
                    THEN Max2(nCols - (f.nLevel - 1 - i) - f.k, maxSubProj[j])
                    ELSE f.result[j]]
         IN IF smallestFullRankIndex <= f.mMin
            THEN [f EXCEPT !.result = result, !.m_returned = TRUE]
            ELSE [f EXCEPT !.result = result,
                           !.previousIndSmallestInvertible =
                               smallestFullRankIndex - f.mMin,
                           !.k = @ - 1]

(* ---- Search and its MinimumObserver ---- *)
\* the merit of a net the evaluator gives no finite merit to
Infinity == MaxMerit + 1

\* MinimumObserver after construction or reset(): nothing recorded
MinimumObserver ==
    [m_bestNet |-> <<>>, m_bestMerit |-> Infinity, m_foundBestNet |-> FALSE]

\* MinimumObserver::observe(net, merit): a net of lower merit than the
\* recorded one replaces it
observe(o, net, merit) ==
    IF merit < o.m_bestMerit
    THEN [m_bestNet |-> net, m_bestMerit |-> merit, m_foundBestNet |-> TRUE]
    ELSE o

hasFoundNet(o) == o.m_foundBestNet

bestNet(o) == o.m_bestNet

bestMerit(o) == o.m_bestMerit

\* MinimumObserver::onProgress(partial): FALSE asks the evaluator to abort
onProgress(o, partial) == partial < o.m_bestMerit

(* ---- state ---- *)
VARIABLES
    \* a ProgressiveRowReducer under arbitrary calls
    rowReducer,       \* the reducer
    lastOp,           \* the last public mutation called on it
    history,          \* which kinds of calls it has seen, in which order
    nOps,             \* how many
    \* a CompositionMaker run to exhaustion
    compositionMaker, \* the maker
    visited,          \* the compositions it has shown, in order
    rowChange,        \* the last changeFromPreviousComposition()
    exhausted,        \* goToNextComposition() has returned false
    \* one call of GaussMethod::computeTValue
    call,             \* its arguments
    frame,            \* the locals of the multilevel computeTValue
    iteration,        \* the locals of the running iteration_on_k
    pc,               \* where the call stands
    ret,              \* what it has returned
    \* one call of RandomSearch::execute
    search,           \* m_nbTries, the loop counter and where the call stands
    m_observer,       \* the observer of the search
    observed,         \* the (net, merit) pairs handed to observe(), in order
    signals,          \* onFailedSearch firings and selectBestNet calls
    twin,             \* a second search constructed with the same arguments
    \* one FastCBC search
    fastCBC,
    \* one call of ComputeMaxCardFromWeights or of a SumHelper
    weightsCall,
    \* the nets built by DigitalNetConstruction and the objects they point to
    netStore,
    \* one call of the Sobol RandomGenValueGenerator
    sobol,
    \* one call of the Explicit RandomGenValueGenerator
    explicitGen,
    \* the digital Strides constructed and their static Gray code table
    digitalStride

redVars == <<rowReducer, lastOp, history, nOps>>

cmVars == <<compositionMaker, visited, rowChange, exhausted>>

tvVars == <<call, frame, iteration, pc, ret>>

rsVars == <<search, m_observer, observed, signals, twin>>

auxVars == <<fastCBC, weightsCall, netStore, sobol, explicitGen, digitalStride>>

vars == <<redVars, cmVars, tvVars, rsVars, auxVars>>

IdleReducer ==
    /\ rowReducer = NewReducer(0)
    /\ lastOp = "none"
    /\ history = "adds"
    /\ nOps = 0

IdleComposition ==
    /\ compositionMaker = CompositionMaker(1, 1)
    /\ visited = <<>>
    /\ rowChange = <<>>
    /\ exhausted = FALSE

IdleTValue ==
    /\ call = <<>>
    /\ frame = <<>>
    /\ iteration = <<>>
    /\ pc = "idle"
    /\ ret = <<>>

IdleSearch ==
    /\ search = <<>>
    /\ m_observer = MinimumObserver
    /\ observed = <<>>
    /\ signals = <<>>
    /\ twin = <<>>

IdleAux ==
    /\ fastCBC = <<>>
    /\ weightsCall = <<>>
    /\ netStore = <<>>
    /\ sobol = <<>>
    /\ explicitGen = <<>>
    /\ digitalStride = <<>>

(* ---- the reducer under arbitrary calls ---- *)
InitReducer ==
    /\ \E nCols \in 0 .. MaxCols : rowReducer = NewReducer(nCols)
    /\ lastOp = "none"
    /\ history = "adds"
    /\ nOps = 0
    /\ IdleComposition
    /\ IdleTValue
    /\ IdleSearch
    /\ IdleAux

AddRow ==
    /\ nOps < MaxOps
    /\ nOps' = nOps + 1
    /\ rowReducer.m_nRows < MaxRows
    /\ \E newRow \in RowsOf(rowReducer.m_nCols) :
          rowReducer' = addRow(rowReducer, newRow)
    /\ lastOp' = "addRow"
    /\ history' = IF history \in {"adds", "columns"} THEN history ELSE "rows"

AddColumn ==
    /\ nOps < MaxOps
    /\ nOps' = nOps + 1
    /\ rowReducer.m_nCols < MaxCols
    /\ \E newCol \in SUBSET (0 .. rowReducer.m_nRows - 1) :
          rowReducer' = addColumn(rowReducer, newCol)
    /\ lastOp' = "addColumn"
    /\ history' = "columns"

ReplaceRow ==
    /\ nOps < MaxOps
    /\ nOps' = nOps + 1
    /\ \E rowIndex \in 0 .. rowReducer.m_nRows - 1 :
       \E newRow \in RowsOf(rowReducer.m_nCols) :
          rowReducer' = replaceRow(rowReducer, rowIndex, newRow)
    /\ lastOp' = "replaceRow"
    /\ history' = IF history \in {"adds", "replaces"} THEN "replaces" ELSE history

NextReducer ==
    (AddRow \/ AddColumn \/ ReplaceRow) /\ UNCHANGED <<cmVars, tvVars, rsVars, auxVars>>

SpecReducer == InitReducer /\ [][NextReducer]_vars

(* ---- C2 ---- *)
\* C2: after every public mutation (addRow, addColumn, replaceRow) the
\* reduced matrix is in reduced row-echelon form: a recorded pivot (r, c)
\* has reduced[r][c] = 1 and reduced[r'][c] = 0 for every other row r',
\* and a row without a recorded pivot is the zero row.
Thm_C2_ReducedRowEchelon ==
    lastOp # "none" =>
        LET R == rowReducer
            piv == R.m_pivotsRowColPositions
        IN /\ \A r \in DOMAIN piv :
                /\ piv[r] \in R.m_redMat[r]
                /\ \A r2 \in (0 .. R.m_nRows - 1) \ {r} : piv[r] \notin R.m_redMat[r2]
           /\ \A r \in (0 .. R.m_nRows - 1) \ DOMAIN piv : R.m_redMat[r] = {}

\* a replaceRow has acted on a reducer with two pivots and a zero row
Wit_C2_ReducedRowEchelon ==
    /\ lastOp = "replaceRow"
    /\ computeRank(rowReducer) = 2
    /\ rowReducer.m_nRows = 3

(* ---- C3 ---- *)
\* what a caller can observe of a reducer
Observable(R) ==
    <<R.m_redMat, computeRank(R), DOMAIN R.m_pivotsColRowPositions,
      R.m_smallestFullRank>>

\* C3: after addRow calls followed by replaceRow calls, the reduced
\* matrix, the rank, the pivot columns and smallestFullRank are those of a
\* fresh reducer to which the current rows are added one by one.
Cex_C3_ReplaceRowEquivalence ==
    history = "replaces" =>
        Observable(rowReducer) =
            Observable(FreshReducer(rowReducer.m_nCols, rowReducer.m_baseMatrix))

(* ---- C4 ---- *)
\* C4: after every public mutation smallestFullRank() is the least number
\* of leading columns on which the current rows have rank nRows, and
\* nCols + 1 when they are not of full rank on all the columns.
Cex_C4_SmallestFullRank ==
    lastOp # "none" =>
        rowReducer.m_smallestFullRank =
            MinColsFullRank(rowReducer.m_baseMatrix, rowReducer.m_nCols)

(* ---- C5 ---- *)
\* C5: after any sequence of addRow and replaceRow calls, the row
\* operations matrix times the matrix of the current rows is the reduced
\* matrix.
Cex_C5_OpsIdentity ==
    history # "columns" =>
        \A j \in 0 .. rowReducer.m_nRows - 1 :
            XorAll(rowReducer.m_baseMatrix, rowReducer.m_rowOperations[j])
                = rowReducer.m_redMat[j]

(* ---- the composition maker run to exhaustion ---- *)
InitComposition ==
    /\ \E k \in 1 .. MaxK : \E s \in 1 .. k :
          /\ compositionMaker = CompositionMaker(k, s)
          /\ visited = <<m_composition(CompositionMaker(k, s))>>
    /\ rowChange = <<>>
    /\ exhausted = FALSE
    /\ IdleReducer
    /\ IdleTValue
    /\ IdleSearch
    /\ IdleAux

\* while (compositionMaker.goToNextComposition()): it returns true
Advance ==
    /\ ~exhausted
    /\ goToNextComposition_returns(compositionMaker)
    /\ compositionMaker' = goToNextComposition(compositionMaker)
    /\ visited' = Append(visited, m_composition(compositionMaker'))
    /\ rowChange' = changeFromPreviousComposition(compositionMaker')
    /\ UNCHANGED exhausted

\* it returns false
Exhaust ==
    /\ ~exhausted
    /\ ~goToNextComposition_returns(compositionMaker)
    /\ compositionMaker' = goToNextComposition(compositionMaker)
    /\ exhausted' = TRUE
    /\ UNCHANGED <<visited, rowChange>>

NextComposition ==
    (Advance \/ Exhaust) /\ UNCHANGED <<redVars, tvVars, rsVars, auxVars>>

SpecComposition == InitComposition /\ [][NextComposition]_vars

(* ---- one call of GaussMethod::computeTValue ---- *)
\* s matrices of one shape, their rows taken from rowSet; the rows that
\* iteration_on_k never reads for this s are zero
MatricesOf(s, nRows, rowSet) ==
    [0 .. s - 1 ->
        {m \in [0 .. nRows - 1 -> rowSet \cup {{}}] :
            \A r \in DOMAIN m : r > nRows - s => m[r] = {}}]

\* the rows with at most one 1
UnitRows(nCols) == {{}} \cup {{c} : c \in 0 .. nCols - 1}

\* scenario S1: M1 = I3, M2 = all ones
S1_Matrices ==
    [d \in 0 .. 1 |-> [r \in 0 .. 2 |-> IF d = 0 THEN {r} ELSE {0, 1, 2}]]

nRowsOf(baseMatrices) == Cardinality(DOMAIN baseMatrices[0])

dimensionOf(baseMatrices) == Cardinality(DOMAIN baseMatrices)

\* the arguments with which the multilevel computeTValue runs: its own,
\* or those of line 85
mMinOf(c) == IF c.kind = "single" THEN c.nCols - 1 ELSE c.mMin

maxSubProjOf(c) == IF c.kind = "single" THEN <<c.maxSubProj>> ELSE c.maxSubProj

InitTValue ==
    /\ \/ \E s \in 1 .. MaxS : \E nRows \in 1 .. NetRows : \E nCols \in 1 .. NetCols :
          \E baseMatrices \in MatricesOf(s, nRows, RowsOf(nCols)) :
             \/ \E maxSubProj \in 0 .. MinOf({MaxSub, nRows}) :
                   call = [kind |-> "single", baseMatrices |-> baseMatrices,
                           nCols |-> nCols, maxSubProj |-> maxSubProj]
             \/ \E mMin \in 0 .. nCols - 1 :
                \E maxSubProj \in [1 .. nCols - mMin -> 0 .. MinOf({MaxSub, nRows})] :
                   call = [kind |-> "multi", baseMatrices |-> baseMatrices,
                           nCols |-> nCols, mMin |-> mMin, maxSubProj |-> maxSubProj]
       \/ \E s \in 2 .. WideS :
          \E baseMatrices \in MatricesOf(s, WideSize, UnitRows(WideSize)) :
             \/ \E maxSubProj \in 0 .. MaxSub :
                   call = [kind |-> "single", baseMatrices |-> baseMatrices,
                           nCols |-> WideSize, maxSubProj |-> maxSubProj]
             \/ \E mMin \in 0 .. WideSize - 1 :
                   call = [kind |-> "multi", baseMatrices |-> baseMatrices,
                           nCols |-> WideSize, mMin |-> mMin,
                           maxSubProj |-> [j \in 1 .. WideSize - mMin |-> 0]]
       \/ call = [kind |-> "single", baseMatrices |-> S1_Matrices,
                  nCols |-> 3, maxSubProj |-> 0]
    /\ frame = <<>>
    /\ iteration = <<>>
    /\ pc = "call"
    /\ ret = <<>>
    /\ IdleReducer
    /\ IdleComposition
    /\ IdleSearch
    /\ IdleAux

\* lines 119-134, and where the call goes from there
EnterLevels ==
    LET f == TValueFrame(nRowsOf(call.baseMatrices), call.nCols,
                         dimensionOf(call.baseMatrices), mMinOf(call), maxSubProjOf(call))
    IN /\ frame' = f
       /\ pc' = IF f.m_returned THEN "done" ELSE "loop"
       /\ ret' = IF ~f.m_returned THEN ret
                 ELSE IF call.kind = "single" THEN f.result[1] ELSE f.result

\* computeTValue (single net), lines 77-86
CallSingle ==
    /\ pc = "call"
    /\ call.kind = "single"
    /\ IF dimensionOf(call.baseMatrices) = 1
       THEN /\ ret' = 0
            /\ pc' = "done"
            /\ UNCHANGED frame
       ELSE EnterLevels
    /\ UNCHANGED <<call, iteration>>

\* computeTValue (multilevel), lines 88-134
CallMulti ==
    /\ pc = "call"
    /\ call.kind = "multi"
    /\ IF dimensionOf(call.baseMatrices) = 1
       THEN /\ IF CountPivotOutOfRange(call.baseMatrices[0], call.nCols)
               THEN /\ pc' = "undefined"
                    /\ UNCHANGED ret
               ELSE /\ pc' = "done"
                    /\ ret' = OneMatrixTValues(call.baseMatrices[0], call.nCols, call.mMin)
            /\ UNCHANGED frame
       ELSE EnterLevels
    /\ UNCHANGED <<call, iteration>>

\* line 137: the test k >= s, and the call of iteration_on_k up to its
\* while loop
LoopK ==
    /\ pc = "loop"
    /\ IF frame.k >= dimensionOf(call.baseMatrices)
       THEN /\ iteration' = iteration_on_k_start(call.baseMatrices, call.nCols,
                                dimensionOf(call.baseMatrices), frame.k)
            /\ pc' = "iterate"
            /\ UNCHANGED ret
       ELSE /\ pc' = "done"
            /\ ret' = IF call.kind = "single" THEN frame.result[1] ELSE frame.result
            /\ UNCHANGED iteration
    /\ UNCHANGED <<call, frame>>

\* iteration_on_k, lines 56-74: one test of the while condition
Compose ==
    /\ pc = "iterate"
    /\ ~iteration.m_returned
    /\ iteration' = iteration_on_k_step(iteration, call.baseMatrices, call.nCols,
                                       dimensionOf(call.baseMatrices))
    /\ UNCHANGED <<call, frame, pc, ret>>

\* lines 138-149: iteration_on_k has returned
AfterK ==
    /\ pc = "iterate"
    /\ iteration.m_returned
    /\ frame' = TValueAfterK(frame, call.nCols, maxSubProjOf(call),
                             iteration.smallestFullRankIndex)
    /\ pc' = IF frame'.m_returned THEN "done" ELSE "loop"
    /\ ret' = IF ~frame'.m_returned THEN ret
              ELSE IF call.kind = "single" THEN frame'.result[1] ELSE frame'.result
    /\ UNCHANGED <<call, iteration>>

NextTValue ==
    (CallSingle \/ CallMulti \/ LoopK \/ Compose \/ AfterK)
        /\ UNCHANGED <<redVars, cmVars, rsVars, auxVars>>

SpecTValue == InitTValue /\ [][NextTValue]_vars

(* ---- compositions, by definition ---- *)
RECURSIVE AllCompositions(_, _)
\* the compositions of k into s positive parts
AllCompositions(k, s) ==
    IF s = 1 THEN IF k >= 1 THEN {<<k>>} ELSE {}
    ELSE UNION {{<<a>> \o rest : rest \in AllCompositions(k - a, s - 1)} :
                    a \in 1 .. k - s + 1}

(* ---- C1 ---- *)
\* the rows a composition selects: the first a[i] rows of matrix s - i
CompositionRows(baseMatrices, s, a) ==
    [key \in {<<i, u>> \in (1 .. s) \X (1 .. MaxOf(SeqRange(a))) : u <= a[i]} |->
        baseMatrices[s - key[1]][key[2] - 1]]

\* every composition of k into s positive parts selects independent rows
FullRankAt(baseMatrices, s, k) ==
    \A a \in AllCompositions(k, s) :
        LinearlyIndependent(CompositionRows(baseMatrices, s, a))

\* the t-value of C1
TValueByDefinition(baseMatrices, nCols, maxSubProj) ==
    LET s == dimensionOf(baseMatrices)
        ks == {k \in s .. nRowsOf(baseMatrices) - maxSubProj :
                  FullRankAt(baseMatrices, s, k)}
    IN IF ks = {} THEN Max2(nCols - s + 1, maxSubProj)
       ELSE Max2(nCols - MaxOf(ks), maxSubProj)

LeadingBlock(matrix, l) ==
    [r \in {q \in DOMAIN matrix : q < l} |-> matrix[r] \cap (0 .. l - 1)]

RandNext(state) == (5 * state + 7) % RandModulus

\* m_randomGenValueGenerator(dim): the generating value drawn in a state
RandGenValue(state, dim) == ((state \div 4) % MaxGenValue) + 1

\* the figures of merit: the worst of the merits given to the coordinates
Figures == [1 .. MaxGenValue -> 0 .. Infinity]

RECURSIVE drawGenVals_upTo(_, _, _, _)
\* execute(), lines 107-113: the generating values of coordinates dim,
\* dim + 1, .., m_dimension - 1 drawn in this order from the generator
drawGenVals_upTo(gen, dim, dimension, acc) ==
    IF dim >= dimension THEN [acc EXCEPT !.m_randomGen = gen]
    ELSE drawGenVals_upTo(RandNext(gen), dim + 1, dimension,
            [acc EXCEPT !.genVals = Append(@, RandGenValue(gen, dim)),
                        !.coords = Append(@, dim)])

\* lines 107-113 mutated: the loop stops one coordinate early
drawGenVals_oneShort(gen, dimension) ==
    drawGenVals_upTo(gen, 0, dimension - 1,
                     [genVals |-> <<>>, coords |-> <<>>, m_randomGen |-> gen])

\* execute(), lines 107-113
drawGenVals(gen, dimension) ==
    drawGenVals_upTo(gen, 0, dimension,
                     [genVals |-> <<>>, coords |-> <<>>, m_randomGen |-> gen])

RECURSIVE evaluate_from(_, _, _, _, _, _)
\* the evaluator from coordinate c on, partial being the merit of the
\* coordinates before c: it reports the partial merit after each
\* coordinate and aborts when the observer asks for it
evaluate_from(figure, genVals, o, earlyAbortion, c, partial) ==
    IF c > Len(genVals) THEN [merit |-> partial, abortedAt |-> 0]
    ELSE LET next == Max2(partial, figure[genVals[c]])
         IN IF earlyAbortion /\ ~onProgress(o, next)
            THEN [merit |-> Infinity, abortedAt |-> c]
            ELSE evaluate_from(figure, genVals, o, earlyAbortion, c + 1, next)

\* (*evaluator)(*net), line 115, with the connections of lines 95-99
evaluate(figure, genVals, o, earlyAbortion) ==
    evaluate_from(figure, genVals, o, earlyAbortion, 1, 0)

\* lines 101-117 mutated: an aborted evaluation leaves the loop and the
\* search fails
execute_loop_abortEnds(t) ==
    LET drawn == drawGenVals(t.search.m_randomGen, t.search.m_dimension)
        r == evaluate(t.search.m_figure, drawn.genVals, t.m_observer,
                      t.search.m_earlyAbortion)
    IN [ search |-> [t.search EXCEPT !.attempt = @ + 1,
                                     !.m_randomGen = drawn.m_randomGen,
                                     !.pc = IF r.abortedAt # 0 THEN "returned" ELSE @],
         m_observer |-> observe(t.m_observer, drawn.genVals, r.merit),
         observed |-> Append(t.observed,
                        <<drawn.genVals, r.merit, r.abortedAt,
                          t.search.attempt, drawn.coords>>),
         signals |-> IF r.abortedAt # 0 THEN <<"onFailedSearch">> ELSE t.signals ]

\* lines 101-117 mutated: every search draws from the generator of this
\* search instead of its own
execute_loop_sharedGen(t) ==
    LET drawn == drawGenVals(search.m_randomGen, t.search.m_dimension)
        r == evaluate(t.search.m_figure, drawn.genVals, t.m_observer,
                      t.search.m_earlyAbortion)
    IN [ search |-> [t.search EXCEPT !.attempt = @ + 1,
                                     !.m_randomGen = drawn.m_randomGen],
         m_observer |-> observe(t.m_observer, drawn.genVals, r.merit),
         observed |-> Append(t.observed,
                        <<drawn.genVals, r.merit, r.abortedAt,
                          t.search.attempt, drawn.coords>>),
         signals |-> t.signals ]

\* execute(), lines 101-117: one turn of the loop, on a search t
execute_loop(t) ==
    LET drawn == drawGenVals(t.search.m_randomGen, t.search.m_dimension)
        r == evaluate(t.search.m_figure, drawn.genVals, t.m_observer,
                      t.search.m_earlyAbortion)
    IN [ search |-> [t.search EXCEPT !.attempt = @ + 1,
                                     !.m_randomGen = drawn.m_randomGen],
         m_observer |-> observe(t.m_observer, drawn.genVals, r.merit),
         observed |-> Append(t.observed,
                        <<drawn.genVals, r.merit, r.abortedAt,
                          t.search.attempt, drawn.coords>>),
         signals |-> t.signals ]

\* lines 118-123 mutated: the return after onFailedSearch is missing
execute_end_noReturn(t) ==
    [t EXCEPT !.search.pc = "returned",
              !.signals =
                  (IF ~hasFoundNet(t.m_observer) THEN <<"onFailedSearch">> ELSE <<>>)
                  \o << <<"selectBestNet", bestNet(t.m_observer),
                          bestMerit(t.m_observer)>> >>]

\* execute(), lines 118-123: the end of the search t
execute_end(t) ==
    [t EXCEPT !.search.pc = "returned",
              !.signals =
                  IF ~hasFoundNet(t.m_observer) THEN <<"onFailedSearch">>
                  ELSE << <<"selectBestNet", bestNet(t.m_observer),
                            bestMerit(t.m_observer)>> >>]

\* RandomSearch(dimension, sizeParameter, figure, nbTries, .., earlyAbortion)
\* with a generator in state seed and an observer of best merit best
RandomSearch(dimension, figure, nbTries, earlyAbortion, seed, best) ==
    [ search |-> [m_nbTries |-> nbTries, m_dimension |-> dimension,
                  m_figure |-> figure, m_earlyAbortion |-> earlyAbortion,
                  m_randomGen |-> seed, seed |-> seed,
                  attempt |-> 1, pc |-> "loop"],
      m_observer |-> [MinimumObserver EXCEPT !.m_bestMerit = best],
      observed |-> <<>>,
      signals |-> <<>> ]

(* ---- one call of RandomSearch::execute ---- *)
\* the search as one record
ThisSearch ==
    [search |-> search, m_observer |-> m_observer,
     observed |-> observed, signals |-> signals]

BecomeSearch(t) ==
    /\ search' = t.search
    /\ m_observer' = t.m_observer
    /\ observed' = t.observed
    /\ signals' = t.signals

InitSearch ==
    /\ \E dimension \in 1 .. MaxDimension : \E figure \in Figures :
       \E nbTries \in 0 .. MaxTries : \E earlyAbortion \in BOOLEAN :
       \E seed \in 0 .. RandModulus - 1 : \E best \in {0, Infinity} :
          LET t == RandomSearch(dimension, figure, nbTries, earlyAbortion, seed, best)
          IN /\ search = t.search
             /\ m_observer = t.m_observer
             /\ observed = t.observed
             /\ signals = t.signals
    /\ twin = <<>>
    /\ IdleReducer
    /\ IdleComposition
    /\ IdleTValue
    /\ IdleAux

\* execute(), lines 101-117: one turn of the loop over the attempts
Attempt ==
    /\ search.pc = "loop"
    /\ search.attempt <= search.m_nbTries
    /\ BecomeSearch(execute_loop(ThisSearch))
    /\ UNCHANGED twin

\* execute(), lines 118-123: the end of the search
Complete ==
    /\ search.pc = "loop"
    /\ search.attempt > search.m_nbTries
    /\ BecomeSearch(execute_end(ThisSearch))
    /\ UNCHANGED twin

NextSearch == (Attempt \/ Complete) /\ UNCHANGED <<redVars, cmVars, tvVars, auxVars>>

SpecSearch == InitSearch /\ [][NextSearch]_vars

(* ---- two searches constructed with the same arguments ---- *)
InitSearchTwin ==
    /\ \E dimension \in 1 .. MaxDimension : \E figure \in Figures :
       \E nbTries \in 0 .. MaxTries : \E seed \in 0 .. RandModulus - 1 :
       \E best \in {0, Infinity} :
       \E earlyAbortion \in BOOLEAN : \E twinEarlyAbortion \in BOOLEAN :
          LET t == RandomSearch(dimension, figure, nbTries, earlyAbortion, seed, best)
          IN /\ search = t.search
             /\ m_observer = t.m_observer
             /\ observed = t.observed
             /\ signals = t.signals
             /\ twin = RandomSearch(dimension, figure, nbTries,
                                    twinEarlyAbortion, seed, best)
    /\ IdleReducer
    /\ IdleComposition
    /\ IdleTValue
    /\ IdleAux

\* execute() of the second search, lines 101-117
TwinAttempt ==
    /\ twin.search.pc = "loop"
    /\ twin.search.attempt <= twin.search.m_nbTries
    /\ twin' = execute_loop(twin)
    /\ UNCHANGED <<search, m_observer, observed, signals>>

\* execute() of the second search, lines 118-123
TwinComplete ==
    /\ twin.search.pc = "loop"
    /\ twin.search.attempt > twin.search.m_nbTries
    /\ twin' = execute_end(twin)
    /\ UNCHANGED <<search, m_observer, observed, signals>>

NextSearchTwin ==
    (Attempt \/ Complete \/ TwinAttempt \/ TwinComplete)
    /\ UNCHANGED <<redVars, cmVars, tvVars, auxVars>>

SpecSearchTwin == InitSearchTwin /\ [][NextSearchTwin]_vars

Thm_C10_SearchOutcome ==
    IF search.pc = "returned"
    THEN IF ~hasFoundNet(m_observer)
         THEN signals = <<"onFailedSearch">>
         ELSE signals =
                << <<"selectBestNet", bestNet(m_observer), bestMerit(m_observer)>> >>
    ELSE signals = <<>>

\* a search of three attempts, the first without finite merit, has
\* completed and selected a net
Wit_C10_SearchOutcome ==
    /\ search.pc = "returned"
    /\ search.m_nbTries = 3
    /\ observed[1][2] = Infinity
    /\ hasFoundNet(m_observer)
    /\ Len(signals) = 1

(* ---- C11 ---- *)
RECURSIVE RandAfter(_, _)
\* the state of a generator started in state after n draws
RandAfter(state, n) == IF n = 0 THEN state ELSE RandAfter(RandNext(state), n - 1)

\* C11: execute builds, evaluates and hands to the observer exactly
\* nbTries candidate nets, one per attempt in the order 1..nbTries, each
\* built from exactly dimension() generating values drawn from the random
\* generator for the coordinates 0, 1, .., dimension()-1 in that order;
\* the outcome is decided only after the last attempt has been observed.
Thm_C11_AttemptsAndDraws ==
    /\ Len(observed) = search.attempt - 1
    /\ Len(observed) <= search.m_nbTries
    /\ \A i \in 1 .. Len(observed) :
          /\ observed[i][4] = i
          /\ Len(observed[i][1]) = search.m_dimension
          /\ observed[i][5] = [c \in 1 .. search.m_dimension |-> c - 1]
          /\ \A c \in 1 .. Len(observed[i][1]) :
                observed[i][1][c] =
                    RandGenValue(RandAfter(search.seed,
                                    (i - 1) * search.m_dimension + c - 1), c - 1)
    /\ (search.pc = "returned" \/ signals # <<>>) =>
          Len(observed) = search.m_nbTries

\* a search of three attempts in dimension two has completed, and its
\* candidates were not all the same
Wit_C11_AttemptsAndDraws ==
    /\ search.pc = "returned"
    /\ search.m_nbTries = 3
    /\ search.m_dimension = 2
    /\ Len(observed) = 3
    /\ observed[1][1] # observed[2][1]
    /\ observed[1][1][1] # observed[1][1][2]

(* ---- C12 ---- *)
\* the candidate observed last
LastObserved(obs) == obs[Len(obs)]

\* C12: with early abortion enabled, an aborted evaluation never ends the
\* search and never becomes the recorded best: the loop goes on with the
\* next attempt, and the search fails only when no candidate at all was
\* accepted.  When the observer's best merit is 0 before the first attempt,
\* every candidate aborts at its first progress report and execute ends by
\* firing onFailedSearch.
Thm_C12_EarlyAbortion ==
    /\ [][ ( /\ search.m_earlyAbortion
             /\ Len(observed') = Len(observed) + 1
             /\ LastObserved(observed')[3] # 0 )
           => ( /\ m_observer' = m_observer
                /\ search'.pc = "loop"
                /\ search'.attempt = search.attempt + 1
                /\ signals' = <<>> ) ]_vars
    /\ [][ ( /\ search.m_earlyAbortion
             /\ Len(observed') = Len(observed) + 1
             /\ bestMerit(m_observer) = 0 )
           => LastObserved(observed')[3] = 1 ]_vars
    /\ []( search.m_earlyAbortion =>
            /\ hasFoundNet(m_observer) =>
                  \E i \in 1 .. Len(observed) :
                     /\ observed[i][3] = 0
                     /\ observed[i][1] = bestNet(m_observer)
                     /\ observed[i][2] = bestMerit(m_observer)
            /\ (search.pc = "returned" /\ signals = <<"onFailedSearch">>) =>
                  \A i \in 1 .. Len(observed) :
                     observed[i][3] # 0 \/ observed[i][2] >= bestMerit(m_observer)
            /\ ( /\ search.pc = "returned"
                 /\ bestMerit(m_observer) = 0
                 /\ ~hasFoundNet(m_observer) ) =>
                  /\ signals = <<"onFailedSearch">>
                  /\ \A i \in 1 .. Len(observed) : observed[i][3] = 1 )

\* a search with early abortion has completed and selected a net: its
\* first candidate was accepted, its second aborted at the second
\* coordinate, its third was accepted
Wit_C12_EarlyAbortion ==
    /\ search.pc = "returned"
    /\ search.m_earlyAbortion
    /\ Len(observed) = 3
    /\ observed[1][3] = 0
    /\ observed[2][3] = 2
    /\ observed[3][3] = 0
    /\ bestNet(m_observer) = observed[3][1]
    /\ Len(signals) = 1
    /\ signals # <<"onFailedSearch">>

\* a search with early abortion and a best merit of 0 from the start has
\* made three attempts and failed
Reach_C12_ArtificialBest ==
    /\ search.pc = "returned"
    /\ search.m_earlyAbortion
    /\ Len(observed) = 3
    /\ bestMerit(m_observer) = 0
    /\ ~hasFoundNet(m_observer)

(* ---- C6 ---- *)
RECURSIVE Binomial(_, _)
Binomial(n, r) ==
    IF r = 0 THEN 1 ELSE IF n = 0 THEN 0
    ELSE Binomial(n - 1, r - 1) + Binomial(n - 1, r)

\* b is a with one unit moved from part p1 to another part p2
UnitMove(a, b, p1, p2) ==
    /\ p1 # p2
    /\ b = [a EXCEPT ![p1] = @ - 1, ![p2] = @ + 1]

\* C6: CompositionMaker(k, s), 1 <= s <= k, visits each composition of k
\* into s positive parts exactly once, C(k-1, s-1) in all, and every state
\* is its predecessor with one unit moved from one part to another, the
\* move changeFromPreviousComposition reports.
Thm_C6_CompositionCoverage ==
    LET k == compositionMaker.m_k
        s == compositionMaker.m_s
        n == Len(visited)
    IN /\ \A i \in 1 .. n : \A j \in 1 .. n : visited[i] = visited[j] => i = j
       /\ SeqRange(visited) \subseteq AllCompositions(k, s)
       /\ exhausted =>
            /\ SeqRange(visited) = AllCompositions(k, s)
            /\ n = Binomial(k - 1, s - 1)
       /\ \A i \in 2 .. n :
            \E p1 \in 1 .. s : \E p2 \in 1 .. s :
                UnitMove(visited[i - 1], visited[i], p1, p2)
       /\ n >= 2 =>
            /\ UnitMove(visited[n - 1], visited[n], rowChange[1][1], rowChange[2][1])
            /\ rowChange[1][2] = visited[n - 1][rowChange[1][1]]
            /\ rowChange[2][2] = visited[n][rowChange[2][1]]

\* the compositions of 6 into 3 parts have all been visited
Wit_C6_CompositionCoverage ==
    /\ exhausted
    /\ compositionMaker.m_k = 6
    /\ compositionMaker.m_s = 3
    /\ Len(visited) = 10

(* ---- FastCBC ---- *)
MaxFilters == 2

\* connectCBCProgress(cbc, minObserver, truncateSum): the connection made
connectCBCProgress(fc, truncateSum) ==
    [fc EXCEPT !.connections =
        Append(@, [from |-> "cbc", to |-> "minObserver", truncateSum |-> truncateSum])]

\* FastCBC.h lines 69-70 and 95-96 mutated: init throws for no figure
init_neverThrows(fc) ==
    [connectCBCProgress(fc, fc.filters = 0) EXCEPT !.pc = "initialized"]

\* CBCBasedSearchTraits<FastCBCTag<..>>::init(search): the specialization
\* for CoordUniformFigureOfMerit (lines 69-70) and the one for the other
\* figures (lines 95-96)
init(fc) ==
    IF fc.figure = "CoordUniformFigureOfMerit"
    THEN [connectCBCProgress(fc, fc.filters = 0) EXCEPT !.pc = "initialized"]
    ELSE [fc EXCEPT !.pc = "failed", !.error = "runtime_error"]

\* fastCBC(storage, dimension, figure), lines 41-47, and the filters added
InitFastCBC ==
    /\ \E figure \in {"CoordUniformFigureOfMerit", "WeightedFigureOfMerit"} :
       \E dimension \in 1 .. MaxDimension : \E filters \in 0 .. MaxFilters :
          fastCBC = [ figure |-> figure, dimension |-> dimension,
                      filters |-> filters, pc |-> "constructed",
                      error |-> "none", connections |-> <<>>,
                      evaluated |-> <<>>, coordinate |-> 1, value |-> 1 ]
    /\ weightsCall = <<>>
    /\ netStore = <<>>
    /\ sobol = <<>>
    /\ explicitGen = <<>>
    /\ digitalStride = <<>>
    /\ IdleReducer
    /\ IdleComposition
    /\ IdleTValue
    /\ IdleSearch

\* the search starts: init is called
FastCBC_init ==
    /\ fastCBC.pc = "constructed"
    /\ fastCBC' = init(fastCBC)

\* the initialized search evaluates the next value of the current coordinate
FastCBC_evaluate ==
    /\ fastCBC.pc = "initialized"
    /\ fastCBC.coordinate <= fastCBC.dimension
    /\ \E merit \in 0 .. MaxMerit :
          fastCBC' = [fastCBC EXCEPT
              !.evaluated = Append(@, <<fastCBC.coordinate, fastCBC.value, merit>>),
              !.value = IF @ = MaxGenValue THEN 1 ELSE @ + 1,
              !.coordinate = IF fastCBC.value = MaxGenValue THEN @ + 1 ELSE @]

\* every coordinate has been explored
FastCBC_done ==
    /\ fastCBC.pc = "initialized"
    /\ fastCBC.coordinate > fastCBC.dimension
    /\ fastCBC' = [fastCBC EXCEPT !.pc = "done"]

NextFastCBC ==
    /\ FastCBC_init \/ FastCBC_evaluate \/ FastCBC_done
    /\ UNCHANGED <<redVars, cmVars, tvVars, rsVars,
                   weightsCall, netStore, sobol, explicitGen, digitalStride>>

SpecFastCBC == InitFastCBC /\ [][NextFastCBC]_vars

(* ---- C14 ---- *)
\* C14: fast CBC with a figure that is not a CoordUniformFigureOfMerit
\* fails with a runtime error raised by init, before any candidate is
\* evaluated; with a coordinate-uniform figure init raises no error and
\* connects the CBC progress to the minimum observer.
Thm_C14_FastCBCInit ==
    IF fastCBC.figure = "CoordUniformFigureOfMerit"
    THEN /\ fastCBC.error = "none"
         /\ fastCBC.pc # "failed"
         /\ fastCBC.pc = "constructed" =>
               fastCBC.evaluated = <<>> /\ fastCBC.connections = <<>>
         /\ fastCBC.pc # "constructed" =>
               /\ Len(fastCBC.connections) = 1
               /\ fastCBC.connections[1].from = "cbc"
               /\ fastCBC.connections[1].to = "minObserver"
    ELSE /\ fastCBC.pc \in {"constructed", "failed"}
         /\ fastCBC.pc = "failed" <=> fastCBC.error = "runtime_error"
         /\ fastCBC.evaluated = <<>>
         /\ fastCBC.connections = <<>>

\* init has thrown for a search whose figure is not coordinate-uniform
Wit_C14_FastCBCInit ==
    /\ fastCBC.figure = "WeightedFigureOfMerit"
    /\ fastCBC.pc = "failed"
    /\ fastCBC.error = "runtime_error"
    /\ fastCBC.dimension = 2

\* a search with a coordinate-uniform figure and filters has been
\* initialized and has evaluated candidates
Reach_C14_CoordUniform ==
    /\ fastCBC.figure = "CoordUniformFigureOfMerit"
    /\ fastCBC.filters > 0
    /\ fastCBC.pc = "done"
    /\ Len(fastCBC.evaluated) = 4

(* ---- ComputeMaxCardFromWeights ---- *)
MaxOrder == 3
MaxCoordinates == 3
MaxWeight == 1

\* the sequences over S of length 0 .. n
SeqsUpTo(S, n) == UNION {[1 .. len -> S] : len \in 0 .. n}

\* LatticeTester::OrderDependentWeights: m_weights[k + 1] is the weight of
\* order k, the orders that are not stored have the default weight
OrderDependentWeights ==
    [ kind : {"OrderDependentWeights"},
      m_defaultWeight : 0 .. MaxWeight,
      m_weights : SeqsUpTo(0 .. MaxWeight, MaxOrder + 1) ]

\* LatticeTester::ProductWeights: m_weights[j] is the weight of coordinate j
\* counted from 1
ProductWeights ==
    [ kind : {"ProductWeights"},
      m_defaultWeight : 0 .. MaxWeight,
      m_weights : SeqsUpTo(0 .. MaxWeight, MaxCoordinates) ]

\* LatticeTester::PODWeights
PODWeights ==
    [ kind : {"PODWeights"},
      m_orderDependentWeights : OrderDependentWeights,
      m_productWeights : ProductWeights ]

getSize(w) == Len(w.m_weights)

getWeightForOrder(w, order) ==
    IF order < Len(w.m_weights) THEN w.m_weights[order + 1] ELSE w.m_defaultWeight

getWeightForCoordinate(w, j) ==
    IF j <= Len(w.m_weights) THEN w.m_weights[j] ELSE w.m_defaultWeight

\* what a call gives: a value, or an exception
Returned(value) == [threw |-> "nothing", value |-> value]
Thrown(exception) == [threw |-> exception, value |-> 0]

RECURSIVE OrderDependent_loop(_, _, _)
\* lines 69-74: the loop over i from i on, maxCard being its value so far
OrderDependent_loop(w, i, maxCard) ==
    IF i < getSize(w)
    THEN OrderDependent_loop(w, i + 1,
            IF getWeightForOrder(w, i) # 0 THEN i ELSE maxCard)
    ELSE maxCard

\* lines 63-76 mutated: the loop stops before the last stored order
ComputeMaxCard_OrderDependent_shortLoop(w) ==
    IF w.m_defaultWeight > 0 THEN Thrown("invalid_argument")
    ELSE Returned(OrderDependent_loop([w EXCEPT !.m_weights = SubSeq(@, 1, Len(@) - 1)], 1, 0))

\* ComputeMaxCardFromWeights<OrderDependentWeights>::operator(), lines 63-76
ComputeMaxCard_OrderDependent(w) ==
    IF w.m_defaultWeight > 0 THEN Thrown("invalid_argument")
    ELSE Returned(OrderDependent_loop(w, 1, 0))

\* ComputeMaxCardFromWeights<ProductWeights>::operator(), lines 81-88
ComputeMaxCard_Product(w) ==
    IF w.m_defaultWeight > 0 THEN Thrown("invalid_argument")
    ELSE Returned(Len(w.m_weights))

\* lines 93-107 mutated: the exception of the product part is not caught
ComputeMaxCard_POD_noCatch(w) ==
    LET maxCardOD == ComputeMaxCard_OrderDependent(w.m_orderDependentWeights)
        maxCardPD == ComputeMaxCard_Product(w.m_productWeights)
    IN IF maxCardOD.threw # "nothing" THEN maxCardOD
       ELSE IF maxCardPD.threw # "nothing" THEN maxCardPD
       ELSE Returned(MinOf({maxCardOD.value, maxCardPD.value}))

\* ComputeMaxCardFromWeights<PODWeights>::operator(), lines 93-107
ComputeMaxCard_POD(w) ==
    LET maxCardOD == ComputeMaxCard_OrderDependent(w.m_orderDependentWeights)
        maxCardPD == ComputeMaxCard_Product(w.m_productWeights)
    IN IF maxCardOD.threw # "nothing" THEN maxCardOD
       ELSE IF maxCardPD.threw = "invalid_argument" THEN Returned(maxCardOD.value)
       ELSE Returned(MinOf({maxCardOD.value, maxCardPD.value}))

(* ---- one call of ComputeMaxCardFromWeights ---- *)
InitMaxCard ==
    /\ \E w \in OrderDependentWeights \cup ProductWeights \cup PODWeights :
          weightsCall = [w |-> w, pc |-> "called", result |-> <<>>]
    /\ fastCBC = <<>>
    /\ netStore = <<>>
    /\ sobol = <<>>
    /\ explicitGen = <<>>
    /\ digitalStride = <<>>
    /\ IdleReducer
    /\ IdleComposition
    /\ IdleTValue
    /\ IdleSearch

\* the end of a call that gave r
MaxCardEnds(r) ==
    weightsCall' = [weightsCall EXCEPT
                   !.pc = IF r.threw = "nothing" THEN "returned" ELSE "thrown",
                   !.result = r]

CallOrderDependent ==
    /\ weightsCall.pc = "called"
    /\ weightsCall.w.kind = "OrderDependentWeights"
    /\ MaxCardEnds(ComputeMaxCard_OrderDependent(weightsCall.w))

CallProduct ==
    /\ weightsCall.pc = "called"
    /\ weightsCall.w.kind = "ProductWeights"
    /\ MaxCardEnds(ComputeMaxCard_Product(weightsCall.w))

CallPOD ==
    /\ weightsCall.pc = "called"
    /\ weightsCall.w.kind = "PODWeights"
    /\ MaxCardEnds(ComputeMaxCard_POD(weightsCall.w))

NextMaxCard ==
    /\ CallOrderDependent \/ CallProduct \/ CallPOD
    /\ UNCHANGED <<redVars, cmVars, tvVars, rsVars,
                   fastCBC, netStore, sobol, explicitGen, digitalStride>>

SpecMaxCard == InitMaxCard /\ [][NextMaxCard]_vars

(* ---- C15 ---- *)
\* the largest element of S, 0 when S is empty
LargestOrZero(S) == IF S = {} THEN 0 ELSE MaxOf(S)

\* C15: for order-dependent weights with default weight 0 the call returns
\* the largest order k with Gamma_k > 0, and 0 when no order has a positive
\* weight; with Gamma_3 = 1 and Gamma_k = 0 otherwise it returns 3.
Thm_C15_OrderDependent ==
    ( /\ weightsCall.w.kind = "OrderDependentWeights"
      /\ weightsCall.w.m_defaultWeight = 0
      /\ weightsCall.pc # "called" ) =>
        /\ weightsCall.pc = "returned"
        /\ weightsCall.result.value =
              LargestOrZero({k \in 1 .. MaxOrder + 1 :
                                getWeightForOrder(weightsCall.w, k) > 0})
        /\ ( /\ getWeightForOrder(weightsCall.w, 3) = 1
             /\ \A k \in 1 .. MaxOrder + 1 :
                   k # 3 => getWeightForOrder(weightsCall.w, k) = 0 )
           => weightsCall.result.value = 3

\* the call has returned 3 for Gamma_3 = 1 and Gamma_k = 0 otherwise
Wit_C15_OrderDependent ==
    /\ weightsCall.w.kind = "OrderDependentWeights"
    /\ weightsCall.w.m_defaultWeight = 0
    /\ weightsCall.w.m_weights = <<0, 0, 0, 1>>
    /\ weightsCall.pc = "returned"
    /\ weightsCall.result.value = 3

(* ---- C16 ---- *)
\* C16: for product weights with default weight 0 the call returns the
\* largest coordinate index j, counted from 1, whose weight gamma_j is > 0,
\* for every list of stored weights, including lists that end with zero
\* weights.
Cex_C16_Product ==
    ( /\ weightsCall.w.kind = "ProductWeights"
      /\ weightsCall.w.m_defaultWeight = 0
      /\ weightsCall.pc # "called" ) =>
        /\ weightsCall.pc = "returned"
        /\ weightsCall.result.value =
              LargestOrZero({j \in 1 .. MaxCoordinates + 1 :
                                getWeightForCoordinate(weightsCall.w, j) > 0})

(* ---- C17 ---- *)
\* C17 as stated: the call throws invalid_argument, and returns no maximal
\* cardinality, for order-dependent weights and product weights with a
\* default weight > 0 and for POD weights whose order-dependent part or
\* whose product part has a default weight > 0.
Cex_C17_DefaultWeightRejected ==
    ( /\ weightsCall.pc # "called"
      /\ \/ /\ weightsCall.w.kind \in {"OrderDependentWeights", "ProductWeights"}
            /\ weightsCall.w.m_defaultWeight > 0
         \/ /\ weightsCall.w.kind = "PODWeights"
            /\ \/ weightsCall.w.m_orderDependentWeights.m_defaultWeight > 0
               \/ weightsCall.w.m_productWeights.m_defaultWeight > 0 ) =>
        /\ weightsCall.pc = "thrown"
        /\ weightsCall.result.threw = "invalid_argument"

\* C17 amended: the call throws invalid_argument, and returns no maximal
\* cardinality, for order-dependent weights and product weights with a
\* default weight > 0 and for POD weights whose order-dependent part has a
\* default weight > 0; for POD weights whose order-dependent part has
\* default weight 0 and whose product part has a default weight > 0 it
\* throws nothing and returns the maximal cardinality of the
\* order-dependent part.
Thm_C17_DefaultWeightRejected ==
    weightsCall.pc # "called" =>
        /\ ( \/ /\ weightsCall.w.kind \in {"OrderDependentWeights", "ProductWeights"}
                /\ weightsCall.w.m_defaultWeight > 0
             \/ /\ weightsCall.w.kind = "PODWeights"
                /\ weightsCall.w.m_orderDependentWeights.m_defaultWeight > 0 ) =>
              /\ weightsCall.pc = "thrown"
              /\ weightsCall.result.threw = "invalid_argument"
        /\ ( /\ weightsCall.w.kind = "PODWeights"
             /\ weightsCall.w.m_orderDependentWeights.m_defaultWeight = 0
             /\ weightsCall.w.m_productWeights.m_defaultWeight > 0 ) =>
              /\ weightsCall.pc = "returned"
              /\ weightsCall.result =
                    ComputeMaxCard_OrderDependent(weightsCall.w.m_orderDependentWeights)

\* the call has returned 2 for POD weights whose product part has default
\* weight 1 and whose order-dependent part has Gamma_2 = 1 and default 0
Wit_C17_DefaultWeightRejected ==
    /\ weightsCall.w.kind = "PODWeights"
    /\ weightsCall.w.m_orderDependentWeights.m_defaultWeight = 0
    /\ weightsCall.w.m_orderDependentWeights.m_weights = <<0, 0, 1>>
    /\ weightsCall.w.m_productWeights.m_defaultWeight = 1
    /\ weightsCall.pc = "returned"
    /\ weightsCall.result.value = 2

(* ---- DigitalNetConstruction ---- *)
MaxNets == 4
MaxSizeParameter == 2

\* ConstructionMethod::createGeneratingMatrix(genValue, sizeParameter)
createGeneratingMatrix(genValue, sizeParameter) ==
    [type |-> "GeneratingMatrix", genValue |-> genValue, sizeParameter |-> sizeParameter]

\* ConstructionMethod::createGeneratingVector(genValue, sizeParameter)
createGeneratingVector(genValue, sizeParameter) ==
    [type |-> "GeneratingVector", genValue |-> genValue, sizeParameter |-> sizeParameter]

\* new GenValue(genValue)
NewGenValue(genValue) == [type |-> "GenValue", genValue |-> genValue]

\* the objects of the heap are numbered in the order of their allocation;
\* a shared pointer is the number of its object
RECURSIVE DigitalNetConstruction_from(_, _, _)
\* DigitalNet.h lines 167-175: the loop over genValues from index k on
DigitalNetConstruction_from(store, genValues, k) ==
    IF k > Len(genValues) THEN store
    ELSE LET n == Len(store.nets)
             size == store.nets[n].m_sizeParameter
             h == Len(store.heap)
         IN DigitalNetConstruction_from(
              [ heap |-> store.heap
                          \o << createGeneratingMatrix(genValues[k], size),
                                createGeneratingVector(genValues[k], size),
                                NewGenValue(genValues[k]) >>,
                nets |-> [store.nets EXCEPT
                            ![n].m_generatingMatrices = Append(@, h + 1),
                            ![n].m_generatingVectors = Append(@, h + 2),
                            ![n].m_genValues = Append(@, h + 3)] ],
              genValues, k + 1)

\* DigitalNetConstruction(dimension, sizeParameter, genValues), lines 162-176
DigitalNetConstruction(store, dimension, sizeParameter, genValues) ==
    DigitalNetConstruction_from(
        [ heap |-> store.heap,
          nets |-> Append(store.nets,
                     [ m_dimension |-> dimension,
                       m_sizeParameter |-> sizeParameter,
                       m_generatingMatrices |-> <<>>,
                       m_generatingVectors |-> <<>>,
                       m_genValues |-> <<>>,
                       parent |-> 0, newGenValue |-> 0 ]) ],
        genValues, 1)

\* lines 203-220 mutated: the objects of the lower coordinates are copied
extendDimension_deepCopy(store, i, newGenValue) ==
    LET net == store.nets[i]
        genValues == [c \in 1 .. Len(net.m_genValues) |->
                         store.heap[net.m_genValues[c]].genValue]
        built == DigitalNetConstruction(store, net.m_dimension + 1,
                     net.m_sizeParameter, Append(genValues, newGenValue))
    IN [built EXCEPT !.nets[Len(built.nets)].parent = i,
                     !.nets[Len(built.nets)].newGenValue = newGenValue]

\* extendDimension(newGenValue) of net i of the store, lines 203-220
extendDimension(store, i, newGenValue) ==
    LET net == store.nets[i]
        h == Len(store.heap)
        newMat == createGeneratingMatrix(newGenValue, net.m_sizeParameter)
        newVec == createGeneratingVector(newGenValue, net.m_sizeParameter)
        genMats == Append(net.m_generatingMatrices, h + 1)
        genVecs == Append(net.m_generatingVectors, h + 2)
        genVals == Append(net.m_genValues, h + 3)
    IN [ heap |-> store.heap \o <<newMat, newVec, NewGenValue(newGenValue)>>,
         nets |-> Append(store.nets,
                    [ m_dimension |-> net.m_dimension + 1,
                      m_sizeParameter |-> net.m_sizeParameter,
                      m_generatingMatrices |-> genMats,
                      m_generatingVectors |-> genVecs,
                      m_genValues |-> genVals,
                      parent |-> i, newGenValue |-> newGenValue ]) ]

\* one net built by the constructor, of dimension 0 or 1
InitNets ==
    /\ \E sizeParameter \in 1 .. MaxSizeParameter :
       \E genValues \in SeqsUpTo(1 .. MaxGenValue, 1) :
          netStore = DigitalNetConstruction([heap |-> <<>>, nets |-> <<>>],
                        Len(genValues), sizeParameter, genValues)
    /\ fastCBC = <<>>
    /\ weightsCall = <<>>
    /\ sobol = <<>>
    /\ explicitGen = <<>>
    /\ digitalStride = <<>>
    /\ IdleReducer
    /\ IdleComposition
    /\ IdleTValue
    /\ IdleSearch

\* some net of the store is extended by some value
ExtendDimension ==
    /\ Len(netStore.nets) < MaxNets
    /\ \E i \in 1 .. Len(netStore.nets) : \E newGenValue \in 1 .. MaxGenValue :
          netStore' = extendDimension(netStore, i, newGenValue)

NextNets ==
    /\ ExtendDimension
    /\ UNCHANGED <<redVars, cmVars, tvVars, rsVars,
                   fastCBC, weightsCall, sobol, explicitGen, digitalStride>>

SpecNets == InitNets /\ [][NextNets]_vars

(* ---- C18 ---- *)
\* the numbers of the objects a net points to
PointedBy(net) ==
    {net.m_generatingMatrices[c] : c \in 1 .. Len(net.m_generatingMatrices)}
    \cup {net.m_generatingVectors[c] : c \in 1 .. Len(net.m_generatingVectors)}
    \cup {net.m_genValues[c] : c \in 1 .. Len(net.m_genValues)}

\* C18: extendDimension(v) on a net of dimension d returns a new net of
\* dimension d+1 whose coordinates 0..d-1 refer to the very same
\* generating-matrix and generating-value objects as the parent and whose
\* coordinate d is the matrix built from v and the parent's size parameter;
\* the parent's dimension, matrices and generating values are left
\* unchanged, also when the same parent is extended several times.
Thm_C18_ExtendDimension ==
    /\ []( \A n \in 1 .. Len(netStore.nets) :
             LET net == netStore.nets[n]
             IN net.parent # 0 =>
                LET parent == netStore.nets[net.parent]
                    d == parent.m_dimension
                IN /\ net.m_dimension = d + 1
                   /\ Len(net.m_generatingMatrices) = d + 1
                   /\ Len(net.m_genValues) = d + 1
                   /\ \A c \in 1 .. d :
                         /\ net.m_generatingMatrices[c] = parent.m_generatingMatrices[c]
                         /\ net.m_genValues[c] = parent.m_genValues[c]
                   /\ netStore.heap[net.m_generatingMatrices[d + 1]] =
                         createGeneratingMatrix(net.newGenValue, parent.m_sizeParameter)
                   /\ netStore.heap[net.m_genValues[d + 1]] =
                         NewGenValue(net.newGenValue)
                   /\ \A m \in 1 .. n - 1 :
                         PointedBy(netStore.nets[m]) \cap
                            {net.m_generatingMatrices[d + 1], net.m_genValues[d + 1]} = {} )
    /\ [][ /\ \A n \in 1 .. Len(netStore.nets) : netStore'.nets[n] = netStore.nets[n]
           /\ \A o \in 1 .. Len(netStore.heap) : netStore'.heap[o] = netStore.heap[o] ]_vars

\* a net of dimension 1 has been extended twice, with different values,
\* and one of the extensions has been extended again
Wit_C18_ExtendDimension ==
    /\ Len(netStore.nets) = 4
    /\ netStore.nets[1].m_dimension = 1
    /\ netStore.nets[2].parent = 1
    /\ netStore.nets[3].parent = 1
    /\ netStore.nets[2].newGenValue # netStore.nets[3].newGenValue
    /\ netStore.nets[4].parent = 2
    /\ netStore.nets[4].m_dimension = 3

(* ---- the Sobol RandomGenValueGenerator ---- *)
MaxSobolCoord == 5

\* nthPrimitivePolynomialDegree(n), n >= 1: the degrees of the primitive
\* polynomials over GF(2) in increasing order
nthPrimitivePolynomialDegree(n) ==
    IF n = 1 THEN 1
    ELSE IF n = 2 THEN 2
    ELSE IF n <= 4 THEN 3
    ELSE IF n <= 6 THEN 4
    ELSE 5

\* m_unif(m_randomGen) with the upper bound set: the values it can give
UniformUInt(upperBound) == 0 .. upperBound

\* lines 311-313 mutated: the upper bound is doubled without the - 1
Sobol_loopBody_boundDoubled(g, u) ==
    [g EXCEPT !.res = Append(@, 2 * u + 1),
              !.upperBound = 2 * (@ + 1),
              !.k = @ + 1]

\* operator()(coord), lines 311-313: the body of the loop, u drawn
Sobol_loopBody(g, u) ==
    [g EXCEPT !.res = Append(@, 2 * u + 1),
              !.upperBound = 2 * (@ + 1) - 1,
              !.k = @ + 1]

InitSobol ==
    /\ \E coord \in 0 .. MaxSobolCoord :
          sobol = [coord |-> coord, pc |-> "called", size |-> 0, k |-> 0,
                   upperBound |-> 0, res |-> <<>>, ret |-> <<>>]
    /\ fastCBC = <<>>
    /\ weightsCall = <<>>
    /\ netStore = <<>>
    /\ explicitGen = <<>>
    /\ digitalStride = <<>>
    /\ IdleReducer
    /\ IdleComposition
    /\ IdleTValue
    /\ IdleSearch

\* operator()(coord), lines 298-308
Sobol_enter ==
    /\ sobol.pc = "called"
    /\ sobol' = IF sobol.coord = 0
                THEN [sobol EXCEPT !.pc = "returned", !.ret = <<0, <<0>>>>]
                ELSE [sobol EXCEPT !.pc = "loop",
                                   !.size = nthPrimitivePolynomialDegree(sobol.coord),
                                   !.upperBound = 0, !.k = 0]

\* lines 309-314: one turn of the loop
Sobol_loop ==
    /\ sobol.pc = "loop"
    /\ sobol.k < sobol.size
    /\ \E u \in UniformUInt(sobol.upperBound) :
          sobol' = Sobol_loopBody(sobol, u)

\* line 315
Sobol_return ==
    /\ sobol.pc = "loop"
    /\ sobol.k >= sobol.size
    /\ sobol' = [sobol EXCEPT !.pc = "returned", !.ret = <<sobol.coord, sobol.res>>]

NextSobol ==
    /\ Sobol_enter \/ Sobol_loop \/ Sobol_return
    /\ UNCHANGED <<redVars, cmVars, tvVars, rsVars,
                   fastCBC, weightsCall, netStore, explicitGen, digitalStride>>

SpecSobol == InitSobol /\ [][NextSobol]_vars

(* ---- C19 ---- *)
RECURSIVE Pow2(_)
Pow2(j) == IF j = 0 THEN 1 ELSE 2 * Pow2(j - 1)

\* C19: the Sobol sampler returns (0, {0}) for coordinate 0, and for every
\* coordinate n >= 1 and every output of the random generator a pair
\* (n, (m_1..m_deg)) where deg is the degree of the n-th primitive
\* polynomial and every m_j is odd with 1 <= m_j < 2^j.
Thm_C19_SobolSampler ==
    sobol.pc = "returned" =>
        IF sobol.coord = 0 THEN sobol.ret = <<0, <<0>>>>
        ELSE /\ sobol.ret[1] = sobol.coord
             /\ Len(sobol.ret[2]) = nthPrimitivePolynomialDegree(sobol.coord)
             /\ \A j \in 1 .. Len(sobol.ret[2]) :
                   /\ sobol.ret[2][j] % 2 = 1
                   /\ 1 <= sobol.ret[2][j]
                   /\ sobol.ret[2][j] < Pow2(j)

\* the sampler has returned the largest direction numbers of coordinate 5
Wit_C19_SobolSampler ==
    /\ sobol.pc = "returned"
    /\ sobol.coord = 5
    /\ sobol.ret = <<5, <<1, 3, 7, 15>>>>

(* ---- the unilevel Explicit RandomGenValueGenerator ---- *)
MaxExplicitRows == 2
MaxExplicitCols == 3

\* m_sizeParameter.first and m_sizeParameter.second
first(sizeParameter) == sizeParameter[1]
second(sizeParameter) == sizeParameter[2]

\* matrix.stackBelow(newRow)
stackBelow(matrix, newRow) == Put(matrix, Cardinality(DOMAIN matrix), newRow)

\* lines 443-451: one turn of the while loop, newRow drawn
Explicit_whileBody(g, newRow) ==
    LET rowReducerTemp == addRow(g.rowReducer, newRow)
    IN IF computeRank(rowReducerTemp) = g.i
       THEN [g EXCEPT !.rowReducer = rowReducerTemp,
                      !.matrix = stackBelow(@, newRow),
                      !.i = @ + 1,
                      !.newRow = newRow, !.kept = TRUE]
       ELSE [g EXCEPT !.newRow = newRow, !.kept = FALSE]

InitExplicit ==
    /\ \E R \in 1 .. MaxExplicitRows : \E C \in 1 .. MaxExplicitCols :
          explicitGen = [ m_sizeParameter |-> <<R, C>>, pc |-> "called",
                          matrix |-> <<>>, rowReducer |-> <<>>, i |-> 0,
                          newRow |-> {}, kept |-> FALSE, ret |-> <<>> ]
    /\ fastCBC = <<>>
    /\ weightsCall = <<>>
    /\ netStore = <<>>
    /\ sobol = <<>>
    /\ digitalStride = <<>>
    /\ IdleReducer
    /\ IdleComposition
    /\ IdleTValue
    /\ IdleSearch

\* operator()(dimension), lines 436-440
Explicit_enter ==
    /\ explicitGen.pc = "called"
    /\ explicitGen' = [explicitGen EXCEPT
          !.pc = "loop",
          !.rowReducer = NewReducer(second(explicitGen.m_sizeParameter)),
          !.i = 1]

\* lines 440-453: one turn of the while loop inside the for loop
Explicit_draw ==
    /\ explicitGen.pc = "loop"
    /\ explicitGen.i <= second(explicitGen.m_sizeParameter)
    /\ \E newRow \in RowsOf(second(explicitGen.m_sizeParameter)) :
          explicitGen' = Explicit_whileBody(explicitGen, newRow)

\* line 454
Explicit_return ==
    /\ explicitGen.pc = "loop"
    /\ explicitGen.i > second(explicitGen.m_sizeParameter)
    /\ explicitGen' = [explicitGen EXCEPT !.pc = "returned", !.ret = explicitGen.matrix]

NextExplicit ==
    /\ Explicit_enter \/ Explicit_draw \/ Explicit_return
    /\ UNCHANGED <<redVars, cmVars, tvVars, rsVars,
                   fastCBC, weightsCall, netStore, sobol, digitalStride>>

SpecExplicit == InitExplicit /\ [][NextExplicit]_vars

(* ---- C20 ---- *)
\* the turns of the while loop keep a row exactly when it raises the rank
\* of the kept rows by one, and a rejected row changes neither the kept
\* rows nor the reducer
Explicit_KeepsIndependentRows ==
    /\ []( explicitGen.pc \in {"loop", "returned"} =>
             /\ LinearlyIndependent(explicitGen.matrix)
             /\ explicitGen.rowReducer.m_baseMatrix = explicitGen.matrix )
    /\ [][ explicitGen.pc = "loop" /\ explicitGen'.pc = "loop" =>
             IF Rank(stackBelow(explicitGen.matrix, explicitGen'.newRow))
                   = Rank(explicitGen.matrix) + 1
             THEN /\ explicitGen'.kept
                  /\ explicitGen'.matrix =
                        stackBelow(explicitGen.matrix, explicitGen'.newRow)
             ELSE /\ ~explicitGen'.kept
                  /\ explicitGen'.matrix = explicitGen.matrix
                  /\ explicitGen'.rowReducer = explicitGen.rowReducer ]_vars

\* C20: for size parameter (R, C) the unilevel Explicit sampler returns an
\* R x C bit matrix whose rows are linearly independent over GF(2).
Cex_C20_ExplicitSampler ==
    explicitGen.pc = "returned" =>
        /\ Cardinality(DOMAIN explicitGen.ret) = first(explicitGen.m_sizeParameter)
        /\ \A r \in DOMAIN explicitGen.ret :
              explicitGen.ret[r] \subseteq 0 .. second(explicitGen.m_sizeParameter) - 1
        /\ LinearlyIndependent(explicitGen.ret)

(* ---- the multilevel Explicit RandomGenValueGenerator ---- *)
MaxMultiRows == 3
MaxMultiCols == 3
WordBits == 4

\* bit j of the integer n
BitOf(n, j) == (n \div Pow2(j)) % 2

\* GeneratingMatrix(nRows, nCols, values): row r holds the bits
\* 0 .. nCols-1 of values[r]
GeneratingMatrix(nRows, nCols, values) ==
    [r \in 0 .. nRows - 1 |-> {j \in 0 .. nCols - 1 : BitOf(values[r + 1], j) = 1}]

\* lines 481-482 mutated: nb keeps its bit i
Multilevel_loopBody_keepsBit(g, nb) ==
    [g EXCEPT !.init = Append(@, (Pow2(g.i) + (nb - (nb % Pow2(g.i)))) % Pow2(WordBits)),
              !.i = @ + 1]

\* operator()(dimension), lines 481-482: the body of the loop, nb drawn
Multilevel_loopBody(g, nb) ==
    [g EXCEPT !.init = Append(@, (Pow2(g.i) + (nb - (nb % Pow2(g.i + 1)))) % Pow2(WordBits)),
              !.i = @ + 1]

InitMultilevel ==
    /\ \E R \in 1 .. MaxMultiRows : \E C \in 1 .. MaxMultiCols :
          explicitGen = [ m_sizeParameter |-> <<R, C>>, pc |-> "called",
                          init |-> <<>>, i |-> 0, ret |-> <<>> ]
    /\ fastCBC = <<>>
    /\ weightsCall = <<>>
    /\ netStore = <<>>
    /\ sobol = <<>>
    /\ digitalStride = <<>>
    /\ IdleReducer
    /\ IdleComposition
    /\ IdleTValue
    /\ IdleSearch

\* operator()(dimension), lines 477-478
Multilevel_enter ==
    /\ explicitGen.pc = "called"
    /\ explicitGen' = [explicitGen EXCEPT !.pc = "loop", !.i = 0, !.init = <<>>]

\* lines 479-483: one turn of the loop
Multilevel_loop ==
    /\ explicitGen.pc = "loop"
    /\ explicitGen.i < first(explicitGen.m_sizeParameter)
    /\ \E nb \in 0 .. Pow2(WordBits) - 1 :
          explicitGen' = Multilevel_loopBody(explicitGen, nb)

\* line 484
Multilevel_return ==
    /\ explicitGen.pc = "loop"
    /\ explicitGen.i >= first(explicitGen.m_sizeParameter)
    /\ explicitGen' = [explicitGen EXCEPT
          !.pc = "returned",
          !.ret = GeneratingMatrix(first(explicitGen.m_sizeParameter),
                                   second(explicitGen.m_sizeParameter),
                                   explicitGen.init)]

NextMultilevel ==
    /\ Multilevel_enter \/ Multilevel_loop \/ Multilevel_return
    /\ UNCHANGED <<redVars, cmVars, tvVars, rsVars,
                   fastCBC, weightsCall, netStore, sobol, digitalStride>>

SpecMultilevel == InitMultilevel /\ [][NextMultilevel]_vars

(* ---- C21 ---- *)
\* the first m rows of a matrix
FirstRows(matrix, m) == [r \in 0 .. m - 1 |-> matrix[r]]

\* C21: the multilevel Explicit sampler returns, for every output of the
\* random generator, a matrix in which the integer encoding of row i
\* (0 <= i < R, i < C) has bit i set and bits 0..i-1 clear, so that for
\* every m the first m rows are linearly independent.
Thm_C21_MultilevelSampler ==
    explicitGen.pc = "returned" =>
        LET R == first(explicitGen.m_sizeParameter)
            C == second(explicitGen.m_sizeParameter)
        IN /\ DOMAIN explicitGen.ret = 0 .. R - 1
           /\ \A i \in 0 .. R - 1 :
                 i < C =>
                    /\ BitOf(explicitGen.init[i + 1], i) = 1
                    /\ \A j \in 0 .. i - 1 : BitOf(explicitGen.init[i + 1], j) = 0
                    /\ i \in explicitGen.ret[i]
                    /\ explicitGen.ret[i] \cap (0 .. i - 1) = {}
           /\ \A m \in 1 .. R :
                 m <= C => LinearlyIndependent(FirstRows(explicitGen.ret, m))

\* the sampler has returned a 3 x 3 matrix whose rows are not those of
\* the identity
Wit_C21_MultilevelSampler ==
    /\ explicitGen.pc = "returned"
    /\ explicitGen.m_sizeParameter = <<3, 3>>
    /\ explicitGen.ret[0] = {0, 1, 2}
    /\ explicitGen.ret[1] = {1, 2}
    /\ explicitGen.ret[2] = {2}

(* ---- C22 ---- *)
\* the keys of a composition a: (p, u) with 1 <= p <= s and 1 <= u <= a[p]
KeysOf(a) == {key \in (1 .. Len(a)) \X (1 .. MaxOf(SeqRange(a))) : key[2] <= a[key[1]]}

\* C22: in iteration_on_k, after seeding and after every composition step,
\* Origin_to_M is a bijection from the keys of the current composition
\* onto the reducer row indices 0..k-1, and the reducer row
\* Origin_to_M[(p, u)] holds row u-1 of matrix s-p; each step moves
\* exactly one key (the 'from' key is present, the 'to' key is absent
\* before the move) and issues exactly one replaceRow.
Thm_C22_RowMap ==
    /\ []( pc = "iterate" =>
             LET map == iteration.Origin_to_M
                 s == dimensionOf(call.baseMatrices)
             IN /\ DOMAIN map = KeysOf(m_composition(iteration.compositionMaker))
                /\ {map[key] : key \in DOMAIN map} = 0 .. frame.k - 1
                /\ \A key1, key2 \in DOMAIN map : map[key1] = map[key2] => key1 = key2
                /\ DOMAIN iteration.rowReducer.m_rows = 0 .. frame.k - 1
                /\ \A key \in DOMAIN map :
                      iteration.rowReducer.m_rows[map[key]] =
                          call.baseMatrices[s - key[1]][key[2] - 1] )
    /\ [][ ( /\ pc = "iterate"
             /\ pc' = "iterate"
             /\ iteration'.compositionMaker # iteration.compositionMaker ) =>
              \E from \in DOMAIN iteration.Origin_to_M :
              \E to \in DOMAIN iteration'.Origin_to_M :
                 /\ to \notin DOMAIN iteration.Origin_to_M
                 /\ DOMAIN iteration'.Origin_to_M =
                       (DOMAIN iteration.Origin_to_M \ {from}) \cup {to}
                 /\ iteration'.Origin_to_M[to] = iteration.Origin_to_M[from]
                 /\ \A key \in DOMAIN iteration.Origin_to_M \ {from} :
                       iteration'.Origin_to_M[key] = iteration.Origin_to_M[key]
                 /\ iteration'.rowReducer =
                       RowSystem_replaceRow(iteration.rowReducer,
                           iteration.Origin_to_M[from],
                           call.baseMatrices[dimensionOf(call.baseMatrices) - to[1]][to[2] - 1])
          ]_vars

\* iteration_on_k is at the third composition of 4 into 3 parts
Wit_C22_RowMap ==
    /\ pc = "iterate"
    /\ dimensionOf(call.baseMatrices) = 3
    /\ frame.k = 4
    /\ iteration.compositionMaker.m_pos = 3
    /\ Cardinality(DOMAIN iteration.Origin_to_M) = 4

(* ---- C23 ---- *)
\* the least number of leading columns on which the rows a composition
\* selects are of full rank, nCols + 1 if there is none
SmallestFullRankOf(baseMatrices, nCols, s, a) ==
    MinColsFullRank(CompositionRows(baseMatrices, s, a), nCols)

\* the compositions iteration_on_k has visited, the current one included
Visited(cm) == {CompositionOrder(cm.m_k, cm.m_s)[i] : i \in 1 .. cm.m_pos}

\* C23: whenever iteration_on_k(matrices, k) returns a value v < nCols,
\* every composition of k into s positive parts selects k rows that have
\* rank k within the first v+1 columns; it returns nCols exactly when some
\* visited composition is not of full rank.
Cex_C23_EveryComposition ==
    (pc = "iterate" /\ iteration.m_returned) =>
        LET s == dimensionOf(call.baseMatrices)
            v == iteration.smallestFullRankIndex
        IN /\ v < call.nCols =>
                \A a \in AllCompositions(frame.k, s) :
                   SmallestFullRankOf(call.baseMatrices, call.nCols, s, a) <= v + 1
           /\ v = call.nCols <=>
                \E a \in Visited(iteration.compositionMaker) :
                   SmallestFullRankOf(call.baseMatrices, call.nCols, s, a) = call.nCols + 1

(* ---- C24 ---- *)
\* the first k of the loop of line 137
FirstK == nRowsOf(call.baseMatrices) - maxSubProjOf(call)[Len(maxSubProjOf(call))]

\* every k examined lies between s and the first k
KLoopRange ==
    pc = "iterate" =>
        /\ frame.k >= dimensionOf(call.baseMatrices)
        /\ frame.k <= FirstK

\* one step of the k loop, given when it stops: the first k examined is
\* the first k, a k that does not stop the loop is followed by k - 1, and
\* the k that stops it ends the call with the result as it then is
KLoopStep(stops) ==
    /\ (pc = "call" /\ pc' = "loop") => frame'.k = FirstK
    /\ (pc = "loop" /\ pc' = "iterate") => frame' = frame
    /\ (pc = "iterate" /\ pc' # "iterate") =>
          IF stops
          THEN /\ pc' = "done"
               /\ ret' = IF call.kind = "single" THEN frame'.result[1]
                         ELSE frame'.result
          ELSE /\ pc' = "loop"
               /\ frame'.k = frame.k - 1
    /\ pc = "done" => (pc' = "done" /\ frame' = frame /\ ret' = ret)

\* C24: in the multilevel computeTValue with s >= 2, k is examined in
\* strictly decreasing order from nRows - maxSubProj.back() down to s, and
\* the loop stops right after the first k for which iteration_on_k
\* reports smallestFullRank <= mMin: no smaller k is examined and no
\* result entry changes afterwards.
Cex_C24_KLoop ==
    /\ []KLoopRange
    /\ [][KLoopStep(smallestFullRank(iteration.rowReducer) <= frame.mMin)]_vars

\* C24 (amended): the same, the loop stopping right after the first k for
\* which iteration_on_k returns a value (smallestFullRank - 1 of the last
\* composition it visited) that is <= mMin.
Thm_C24_KLoop ==
    /\ []KLoopRange
    /\ [][KLoopStep(iteration.smallestFullRankIndex <= frame.mMin)]_vars

\* the loop has stopped at its second k or later, above s, in a call
\* with several levels
Wit_C24_KLoop ==
    /\ pc = "done"
    /\ call.kind = "multi"
    /\ frame # <<>>
    /\ frame.m_returned
    /\ frame.nLevel >= 2
    /\ frame.k < FirstK
    /\ frame.k > dimensionOf(call.baseMatrices)

(* ---- C25 ---- *)
\* the s = 1 branch of the multilevel computeTValue has run to its end,
\* or has left defined behaviour
OneMatrixCallOver ==
    /\ pc \in {"done", "undefined"}
    /\ call.kind = "multi"
    /\ dimensionOf(call.baseMatrices) = 1

\* for each level l = mMin + 1 .. nCols, l minus the number of pivots
\* (r, c) with max(r, c) < l
LevelMinusPivots(pivotPos, nCols, mMin) ==
    [j \in 1 .. nCols - mMin |->
        (mMin + j) - Cardinality({r \in DOMAIN pivotPos :
                                    Max2(r, pivotPos[r]) < mMin + j})]

\* C25: for s = 1 the multilevel computeTValue returns one entry per level
\* l = mMin+1 .. nCols, equal to l minus the number of reducer pivots
\* (r, c) with max(r, c) < l, the pivots being those obtained after adding
\* all nRows rows of the matrix.
Cex_C25_OneMatrixLevels ==
    OneMatrixCallOver =>
        /\ pc = "done"
        /\ ret = LevelMinusPivots(OneMatrixPivots(call.baseMatrices[0], call.nCols),
                                  call.nCols, call.mMin)

\* where the call returns, it returns what C25 states
OneMatrixLevels_whereDefined ==
    (OneMatrixCallOver /\ pc = "done") =>
        ret = LevelMinusPivots(OneMatrixPivots(call.baseMatrices[0], call.nCols),
                               call.nCols, call.mMin)

(* ---- C26 ---- *)
\* C26: for s = 1 and any nRows x nCols matrix with mMin <= nCols, every
\* index max(r, c) used to increment countPivot in the multilevel
\* computeTValue is < nCols (the size of countPivot), for every pivot
\* (r, c) reported by the reducer, including matrices with nRows > nCols.
Cex_C26_CountPivotIndex ==
    (OneMatrixCallOver /\ call.mMin <= call.nCols) =>
        LET pivotPos == OneMatrixPivots(call.baseMatrices[0], call.nCols)
        IN \A r \in DOMAIN pivotPos : Max2(r, pivotPos[r]) < call.nCols

(* ---- C27 ---- *)
\* what is left to do of a call: the call itself, then the values of k
\* still to examine, then the compositions of k still to visit
Variant ==
    CASE pc = "call" -> <<1, 0, 0>>
      [] pc = "loop" -> <<0, frame.k + 1, 0>>
      [] pc = "iterate" ->
            <<0, frame.k,
              IF iteration.m_returned THEN 1
              ELSE 2 + Len(CompositionOrder(iteration.compositionMaker.m_k,
                                            iteration.compositionMaker.m_s))
                     - iteration.compositionMaker.m_pos>>
      [] OTHER -> <<0, 0, 0>>

\* the lexicographic order on triples of natural numbers
LexLess(a, b) ==
    \/ a[1] < b[1]
    \/ a[1] = b[1] /\ a[2] < b[2]
    \/ a[1] = b[1] /\ a[2] = b[2] /\ a[3] < b[3]

\* C27: both overloads of GaussMethod::computeTValue terminate for every
\* input with s >= 1 matrices, a non-empty maxSubProj and
\* maxSubProj.back() <= nRows: the k loop strictly decreases k and ends at
\* k < s or at the break, and in each iteration_on_k call
\* goToNextComposition eventually returns false or the call returns early.
\* Stated with a variant, a triple of natural numbers that every step of
\* a call strictly decreases: k never rises and falls from one call of
\* iteration_on_k to the next, the position in the compositions advances
\* within one; k itself stays a natural number (no k-- at 0).
Thm_C27_Terminates ==
    /\ [](Variant \in Nat \X Nat \X Nat)
    /\ [](pc \in {"loop", "iterate"} => frame.k \in Nat)
    /\ [][LexLess(Variant', Variant)]_vars

\* a call is over after two values of k, the last one with several
\* compositions visited up to the one after which goToNextComposition
\* returns false
Wit_C27_Terminates ==
    /\ pc = "done"
    /\ frame # <<>>
    /\ frame.k < FirstK
    /\ iteration.compositionMaker.m_pos >= 2
    /\ iteration.compositionMaker.m_pos =
          Len(CompositionOrder(iteration.compositionMaker.m_k,
                               iteration.compositionMaker.m_s))

(* ---- PAlphaSL10: SumHelper ---- *)
MaxSumDimension == 2
MaxSumWeight == 2
MaxZ == 2
MaxLambda == 2

\* the norm types for which lambda * 2 / normType is a whole number
NormTypes == {1, 2}

\* the weights of the calls: weights 0 .. MaxSumWeight, the product
\* weights of coordinates 0 .. MaxSumDimension - 1 and the order-dependent
\* weights of orders 0 .. MaxSumDimension stored or left at the default
SumProductWeights ==
    [ kind : {"ProductWeights"},
      m_defaultWeight : 0 .. 1,
      m_weights : SeqsUpTo(0 .. MaxSumWeight, MaxSumDimension) ]

SumOrderDependentWeights ==
    [ kind : {"OrderDependentWeights"},
      m_defaultWeight : 0 .. 1,
      m_weights : SeqsUpTo(0 .. MaxSumWeight, MaxSumDimension + 1) ]

SumPODWeights ==
    [ kind : {"PODWeights"},
      m_orderDependentWeights : SumOrderDependentWeights,
      m_productWeights : SumProductWeights ]

\* LatBuilder::CombinedWeights: the list of its components
SumCombinedWeights ==
    [ kind : {"CombinedWeights"},
      m_list : UNION {[1 .. len -> SumProductWeights \cup SumOrderDependentWeights] :
                        len \in 1 .. 2} ]

RECURSIVE IntPow(_, _)
\* intPow(x, n), and std::pow(x, n) for a whole number n
IntPow(x, n) == IF n = 0 THEN 1 ELSE x * IntPow(x, n - 1)

\* `lambda * 2 / normType`, the power the weights are raised to
PowerOf(lambda, normType) == (lambda * 2) \div normType

RECURSIVE Product_loop(_, _, _, _, _, _, _)
\* lines 177-184: the loop over coord from coord on, val being its value
\* so far (coordinate coord of the code is coordinate coord + 1 of
\* getWeightForCoordinate here, which counts from 1)
Product_loop(weights, normType, z, lambda, dimension, coord, val) ==
    IF coord < dimension
    THEN LET weight == getWeightForCoordinate(weights, coord + 1)
         IN Product_loop(weights, normType, z, lambda, dimension, coord + 1,
                IF weight # 0
                THEN val * (1 + z * IntPow(weight, PowerOf(lambda, normType)))
                ELSE val)
    ELSE val

\* SumHelper<ProductWeights>::operator(), lines 168-187
SumHelper_Product(weights, normType, z, lambda, dimension) ==
    Product_loop(weights, normType, z, lambda, dimension, 0, 1) - 1

RECURSIVE OrderDependent_sum(_, _, _, _, _, _, _, _)
\* lines 152-159: the loop over order from order on
OrderDependent_sum(weights, normType, z, lambda, dimension, order, cumul, val) ==
    IF order <= dimension
    THEN LET weight == getWeightForOrder(weights, order)
             cumul1 == (cumul * (dimension - order + 1) * z) \div order
         IN OrderDependent_sum(weights, normType, z, lambda, dimension, order + 1,
                cumul1,
                IF weight # 0
                THEN val + cumul1 * IntPow(weight, PowerOf(lambda, normType))
                ELSE val)
    ELSE val

\* SumHelper<OrderDependentWeights>::operator(), lines 142-161
SumHelper_OrderDependent(weights, normType, z, lambda, dimension) ==
    OrderDependent_sum(weights, normType, z, lambda, dimension, 1, 1, 0)

RECURSIVE POD_states(_, _, _, _, _, _, _)
\* lines 204-211: the loop over s from s on; states is the vector, indexed
\* from 0
POD_states(weights, normType, z, lambda, dimension, s, states) ==
    IF s <= dimension
    THEN LET pweight == IntPow(getWeightForCoordinate(weights.m_productWeights, s + 1),
                               PowerOf(lambda, normType))
             pushed == Put(states, s, 0)
         IN POD_states(weights, normType, z, lambda, dimension, s + 1,
                [order \in 0 .. s |->
                    IF order > 0
                    THEN pushed[order] + z * pweight * pushed[order - 1]
                    ELSE pushed[order]])
    ELSE states

\* SumHelper<PODWeights>::operator(), lines 193-218
SumHelper_POD(weights, normType, z, lambda, dimension) ==
    LET states == POD_states(weights, normType, z, lambda, dimension, 1,
                             [order \in {0} |-> 1])
    IN SumOver([order \in 1 .. dimension |->
                  IntPow(getWeightForOrder(weights.m_orderDependentWeights, order),
                         PowerOf(lambda, normType)) * states[order]],
               1 .. dimension)

\* WeightsDispatcher::dispatch<SumHelper> on a component of a list
SumHelper_dispatch(weights, normType, z, lambda, dimension) ==
    CASE weights.kind = "ProductWeights" ->
            SumHelper_Product(weights, normType, z, lambda, dimension)
      [] weights.kind = "OrderDependentWeights" ->
            SumHelper_OrderDependent(weights, normType, z, lambda, dimension)
      [] weights.kind = "PODWeights" ->
            SumHelper_POD(weights, normType, z, lambda, dimension)

\* sumCombined, lines 84-96
sumCombined(weights, normType, z, lambda, dimension) ==
    SumOver([i \in DOMAIN weights.m_list |->
                SumHelper_dispatch(weights.m_list[i], normType, z,
                                   PowerOf(lambda, normType), dimension)],
            DOMAIN weights.m_list)

(* ---- one call of a SumHelper ---- *)
InitSumHelper ==
    /\ \E weights \in SumProductWeights \cup SumOrderDependentWeights
                        \cup SumPODWeights \cup SumCombinedWeights :
       \E normType \in NormTypes : \E z \in 1 .. MaxZ :
       \E lambda \in 1 .. MaxLambda : \E dimension \in 1 .. MaxSumDimension :
          weightsCall = [ w |-> weights, normType |-> normType, z |-> z,
                          lambda |-> lambda, dimension |-> dimension,
                          pc |-> "called", result |-> 0 ]
    /\ fastCBC = <<>>
    /\ netStore = <<>>
    /\ sobol = <<>>
    /\ explicitGen = <<>>
    /\ digitalStride = <<>>
    /\ IdleReducer
    /\ IdleComposition
    /\ IdleTValue
    /\ IdleSearch

\* the end of a call that returned val
SumHelperReturns(val) ==
    weightsCall' = [weightsCall EXCEPT !.pc = "returned", !.result = val]

SumProduct ==
    /\ weightsCall.pc = "called"
    /\ weightsCall.w.kind = "ProductWeights"
    /\ SumHelperReturns(SumHelper_Product(weightsCall.w, weightsCall.normType,
          weightsCall.z, weightsCall.lambda, weightsCall.dimension))

SumOrderDependent ==
    /\ weightsCall.pc = "called"
    /\ weightsCall.w.kind = "OrderDependentWeights"
    /\ SumHelperReturns(SumHelper_OrderDependent(weightsCall.w, weightsCall.normType,
          weightsCall.z, weightsCall.lambda, weightsCall.dimension))

SumPOD ==
    /\ weightsCall.pc = "called"
    /\ weightsCall.w.kind = "PODWeights"
    /\ SumHelperReturns(SumHelper_POD(weightsCall.w, weightsCall.normType,
          weightsCall.z, weightsCall.lambda, weightsCall.dimension))

SumCombined ==
    /\ weightsCall.pc = "called"
    /\ weightsCall.w.kind = "CombinedWeights"
    /\ SumHelperReturns(sumCombined(weightsCall.w, weightsCall.normType,
          weightsCall.z, weightsCall.lambda, weightsCall.dimension))

NextSumHelper ==
    /\ SumProduct \/ SumOrderDependent \/ SumPOD \/ SumCombined
    /\ UNCHANGED <<redVars, cmVars, tvVars, rsVars,
                   fastCBC, netStore, sobol, explicitGen, digitalStride>>

SpecSumHelper == InitSumHelper /\ [][NextSumHelper]_vars

(* ---- C28 ---- *)
RECURSIVE ProductOver(_, _)
\* the product of the numbers f[i], i in S
ProductOver(f, S) ==
    IF S = {} THEN 1
    ELSE LET i == MinOf(S) IN f[i] * ProductOver(f, S \ {i})

\* the sum over the non-empty projections P of the coordinates
\* 0 .. dimension - 1 of z^|P| * Gamma[|P|] * the product of gamma[j],
\* j in P; the projections are numbered by their bits
ProjectionSum(z, dimension, Gamma, gamma) ==
    LET P(n) == {j \in 0 .. dimension - 1 : BitOf(n, j) = 1}
    IN SumOver([n \in 1 .. Pow2(dimension) - 1 |->
                  IntPow(z, Cardinality(P(n))) * Gamma[Cardinality(P(n))]
                      * ProductOver(gamma, P(n))],
               1 .. Pow2(dimension) - 1)

\* the projection sum with the weights of the call raised to the power
\* lambda * 2 / normType, gamma[j] being the product weight of the
\* coordinate j + shift
WeightedProjectionSum(c, Gamma, shift) ==
    ProjectionSum(c.z, c.dimension, Gamma,
        [j \in 0 .. c.dimension - 1 |->
            IntPow(getWeightForCoordinate(
                      IF c.w.kind = "PODWeights" THEN c.w.m_productWeights ELSE c.w,
                      j + shift + 1),
                   PowerOf(c.lambda, c.normType))])

\* the order-dependent weights of a POD call, raised to the power
PODGamma(c) ==
    [order \in 1 .. c.dimension |->
        IntPow(getWeightForOrder(c.w.m_orderDependentWeights, order),
               PowerOf(c.lambda, c.normType))]

\* C28: the POD specialisation of the SumHelper returns, for every
\* dimension d, the sum over the non-empty projections P of the
\* coordinates 0 .. d-1 of z^|P| * (Gamma_|P|)^e * the product over j in P
\* of (gamma_j)^e, e = lambda*2/normType, with gamma_j =
\* getWeightForCoordinate(j) for j = 0 .. d-1 as in the product-weights
\* specialisation.
Cex_C28_PODSum ==
    (weightsCall.pc = "returned" /\ weightsCall.w.kind = "PODWeights") =>
        weightsCall.result = WeightedProjectionSum(weightsCall, PODGamma(weightsCall), 0)

\* the product-weights specialisation does index the coordinates
\* 0 .. d-1
ProductSum_indexing ==
    (weightsCall.pc = "returned" /\ weightsCall.w.kind = "ProductWeights") =>
        weightsCall.result =
            WeightedProjectionSum(weightsCall, [order \in 1 .. weightsCall.dimension |-> 1], 0)

\* the POD specialisation indexes the coordinates 1 .. d
PODSum_indexing ==
    (weightsCall.pc = "returned" /\ weightsCall.w.kind = "PODWeights") =>
        weightsCall.result = WeightedProjectionSum(weightsCall, PODGamma(weightsCall), 1)

(* ---- C29 ---- *)
\* C29: for combined weights the SumHelper returns the sum, over the
\* weights of the list, of the SumHelper of each component evaluated with
\* the arguments (normType, z, lambda, dimension) it received, for every
\* normType and lambda.
Cex_C29_CombinedSum ==
    (weightsCall.pc = "returned" /\ weightsCall.w.kind = "CombinedWeights") =>
        weightsCall.result =
            SumOver([i \in DOMAIN weightsCall.w.m_list |->
                        SumHelper_dispatch(weightsCall.w.m_list[i], weightsCall.normType,
                            weightsCall.z, weightsCall.lambda, weightsCall.dimension)],
                    DOMAIN weightsCall.w.m_list)

\* with normType = 2 the components do get the lambda of the call
CombinedSum_normTwo ==
    ( /\ weightsCall.pc = "returned"
      /\ weightsCall.w.kind = "CombinedWeights"
      /\ weightsCall.normType = 2 ) =>
        weightsCall.result =
            SumOver([i \in DOMAIN weightsCall.w.m_list |->
                        SumHelper_dispatch(weightsCall.w.m_list[i], weightsCall.normType,
                            weightsCall.z, weightsCall.lambda, weightsCall.dimension)],
                    DOMAIN weightsCall.w.m_list)

(* ---- Storage<DIGITAL, UNILEVEL>: Stride ---- *)
MaxStrideBits == 3
MaxStrides == 3

RECURSIVE BitXor(_, _)
\* a ^ b on unsigned integers
BitXor(a, b) ==
    IF a = 0 /\ b = 0 THEN 0
    ELSE (((a % 2) + (b % 2)) % 2) + 2 * BitXor(a \div 2, b \div 2)

RECURSIVE getmsb_loop(_, _)
\* getmsb, line 104: while (x >>= 1) r++
getmsb_loop(x, r) ==
    IF x \div 2 # 0 THEN getmsb_loop(x \div 2, r + 1) ELSE r

\* getmsb, lines 99-106
getmsb(x) == IF x < 1 THEN 0 ELSE getmsb_loop(x, 0)

\* line 74 mutated: the Gray code of i is not compared with that of i + 1
GraycodeEntry_ofOne(i) == getmsb(BitXor(i \div 2, i))

\* line 74: the entry pushed for i
GraycodeEntry(i) ==
    getmsb(BitXor(BitXor(i \div 2, i), BitXor((i + 1) \div 2, i + 1)))

RECURSIVE graycode_fill(_, _, _)
\* lines 73-75: the loop over i from i on; m_graycode[i] of the code is
\* m_graycode[i + 1] here
graycode_fill(m_graycode, i, size) ==
    IF i < size
    THEN graycode_fill(Append(m_graycode, GraycodeEntry(i)), i + 1, size)
    ELSE m_graycode

RECURSIVE permutation_fill(_, _, _, _)
\* lines 76-78: the loop over i from i on; an index into cols that is not
\* below its size ends the loop in undefined behaviour
permutation_fill(p, cols, m_graycode, i) ==
    IF i < Len(p.m_permutation)
    THEN IF m_graycode[i] >= Len(cols)
         THEN [p EXCEPT !.undefined = TRUE]
         ELSE permutation_fill(
                [p EXCEPT !.m_permutation[i + 1] =
                              BitXor(p.m_permutation[i], cols[m_graycode[i] + 1])],
                cols, m_graycode, i + 1)
    ELSE p

\* Stride::Stride, lines 67-79, on the static table m_graycode: the new
\* table and the Stride (cols[j] of the code is cols[j + 1] here, and so
\* for m_permutation)
Stride(m_graycode, virtualSize, cols) ==
    LET table == graycode_fill(m_graycode, Len(m_graycode), virtualSize)
    IN [ m_graycode |-> table,
         stride |-> permutation_fill(
                       [ m_permutation |-> [i \in 1 .. virtualSize |-> 0],
                         cols |-> cols,
                         undefined |-> FALSE ],
                       cols, table, 1) ]

\* line 112: the static table is empty; no Stride yet
InitStride ==
    /\ digitalStride = [ m_graycode |-> <<>>, built |-> <<>>, stride |-> <<>> ]
    /\ fastCBC = <<>>
    /\ weightsCall = <<>>
    /\ netStore = <<>>
    /\ sobol = <<>>
    /\ explicitGen = <<>>
    /\ IdleReducer
    /\ IdleComposition
    /\ IdleTValue
    /\ IdleSearch

\* one more Stride is constructed, over a storage of virtual size 2^m and
\* a generating matrix of m columns
NewStride ==
    /\ Len(digitalStride.built) < MaxStrides
    /\ \E m \in 0 .. MaxStrideBits :
       \E cols \in [1 .. m -> 0 .. Pow2(m) - 1] :
          LET made == Stride(digitalStride.m_graycode, Pow2(m), cols)
          IN digitalStride' = [ m_graycode |-> made.m_graycode,
                                built |-> Append(digitalStride.built, m),
                                stride |-> made.stride ]

NextStride ==
    /\ NewStride
    /\ UNCHANGED <<redVars, cmVars, tvVars, rsVars,
                   fastCBC, weightsCall, netStore, sobol, explicitGen>>

SpecStride == InitStride /\ [][NextStride]_vars

(* ---- C30 ---- *)
\* the position of the lowest zero bit of i
LowestZeroBit(i) == MinOf({j \in 0 .. MaxStrideBits + 1 : BitOf(i, j) = 0})

\* the Gray code of i
GrayCode(i) == BitXor(i, i \div 2)

\* the XOR of cols[j] over the bit positions j set in g, bit by bit
XorOfColumns(cols, g) ==
    LET chosen == {j \in 0 .. Len(cols) - 1 : BitOf(g, j) = 1}
        bit(b) == Cardinality({j \in chosen : BitOf(cols[j + 1], b) = 1}) % 2
    IN SumOver([b \in 0 .. MaxStrideBits |-> bit(b) * Pow2(b)], 0 .. MaxStrideBits)

\* C30: for a digital Stride built from a generating matrix with reversed
\* columns cols over a storage of virtual size n = 2^m, m_permutation[0]
\* = 0 and for every i < n m_permutation[i] is the XOR of cols[j] over the
\* bit positions j set in the Gray code i XOR (i >> 1), whatever Strides
\* of other sizes were constructed before; the static table always has
\* m_graycode[i] = position of the lowest zero bit of i, and every index
\* into cols is < m.
Thm_C30_StridePermutation ==
    /\ \A i \in 0 .. Len(digitalStride.m_graycode) - 1 :
          digitalStride.m_graycode[i + 1] = LowestZeroBit(i)
    /\ digitalStride.built # <<>> =>
          LET st == digitalStride.stride
              m == digitalStride.built[Len(digitalStride.built)]
          IN /\ ~st.undefined
             /\ Len(st.m_permutation) = Pow2(m)
             /\ st.m_permutation[1] = 0
             /\ \A i \in 0 .. Pow2(m) - 1 :
                   st.m_permutation[i + 1] = XorOfColumns(st.cols, GrayCode(i))
             /\ \A i \in 1 .. Pow2(m) - 1 :
                   digitalStride.m_graycode[i] < m

\* a Stride of size 4 with two different non-zero columns has been
\* constructed after a larger one and a smaller one
Wit_C30_StridePermutation ==
    /\ digitalStride.built = <<3, 1, 2>>
    /\ digitalStride.stride.cols = <<1, 2>>
    /\ digitalStride.stride.m_permutation = <<0, 1, 3, 2>>
    /\ Len(digitalStride.m_graycode) = 8

====
